---- MODULE Spec2Model ----
(***************************************************************************)
(* State-machine model of the AI governance application: the domain model  *)
(* and scoring engine of source.py and the Streamlit session handlers of   *)
(* app.py (inventory, risk tiering, lifecycle risks, export pipeline).     *)
(***************************************************************************)
EXTENDS Integers, Sequences, FiniteSets, TLC

VARIABLES
    system_records,             \* st.session_state.system_records
    risk_tier_results,          \* st.session_state.risk_tier_results
    lifecycle_risks,            \* st.session_state.lifecycle_risks
    system_id_map,              \* st.session_state.system_id_map
    df_inventory,               \* st.session_state.df_inventory (rows)
    df_risk_tier,               \* st.session_state.df_risk_tier (rows)
    df_lifecycle_risk,          \* st.session_state.df_lifecycle_risk (rows)
    output_dir,                 \* st.session_state.output_dir
    generated_files,            \* st.session_state.generated_files
    evidence_manifest,          \* st.session_state.evidence_manifest
    executive_summary_content,  \* st.session_state.executive_summary_content
    fs,                         \* the file system: directories and file contents
    download,                   \* bytes handed to st.download_button
    msgs,                       \* st.success / st.warning / st.error of the last run
    now,                        \* the wall clock read by datetime.now()
    pc,                         \* where the running script stands in the ZIP handler
    peer                        \* session state of the other browser session, if any

vars == <<system_records, risk_tier_results, lifecycle_risks, system_id_map,
          df_inventory, df_risk_tier, df_lifecycle_risk, output_dir,
          generated_files, evidence_manifest, executive_summary_content,
          fs, download, msgs, now, pc, peer>>

dataVars == <<system_records, risk_tier_results, lifecycle_risks>>
viewVars == <<system_id_map, df_inventory, df_risk_tier, df_lifecycle_risk>>
exportVars == <<output_dir, generated_files, evidence_manifest,
                executive_summary_content, fs, download>>
exportVarsButDisk == <<output_dir, generated_files, evidence_manifest,
                       executive_summary_content, download>>

None == [none |-> TRUE]

\* What a handler of one session leaves alone when it runs from start to end.
sharedVars == <<pc, peer>>

(***************************************************************************)
(* Bounds of the model.                                                    *)
(***************************************************************************)
\* Handler runs explored after start-up (each run reads a later clock value).
MaxClock == 2
\* Largest number of systems the inventory is grown to.
MaxSystems == 4
\* Largest number of lifecycle risks the session is grown to.
MaxRisks == 11
\* Largest total score the tier rule is examined on.
MaxTotal == 30
\* Handler runs explored on the Exports & Evidence page.
MaxExportClock == 4
\* Clock values that fall on one calendar day.
TicksPerDay == 2

(***************************************************************************)
(* Enumerations (source.py).                                               *)
(***************************************************************************)
AIType == {"ML", "LLM", "AGENT"}
DeploymentMode == {"BATCH", "REAL_TIME", "HUMAN_IN_LOOP", "INTERNAL_ONLY"}
DataSensitivity == {"PUBLIC", "INTERNAL", "CONFIDENTIAL", "REGULATED_PII"}
DecisionCriticality == {"LOW", "MEDIUM", "HIGH"}
AutomationLevel == {"ADVISORY", "HUMAN_APPROVAL", "FULLY_AUTOMATED"}
RiskTier == {"TIER_1", "TIER_2", "TIER_3"}
LifecyclePhase == {"DESIGN", "DEVELOPMENT", "TRAINING", "TESTING", "DEPLOYMENT",
                   "MONITORING", "MAINTENANCE", "DECOMMISSIONING"}
RiskCategory == {"BIAS_FAIRNESS", "PERFORMANCE_ROBUSTNESS", "DATA_PRIVACY_SECURITY",
                 "INTERPRETABILITY_EXPLAINABILITY", "OPERATIONAL_RELIABILITY",
                 "LEGAL_REGULATORY", "REPUTATIONAL", "ENVIRONMENTAL_SOCIAL"}

(***************************************************************************)
(* Sequence helpers.                                                       *)
(***************************************************************************)
Range(s) == {s[i] : i \in DOMAIN s}

RECURSIVE SumSeq(_)
SumSeq(s) == IF s = <<>> THEN 0 ELSE Head(s) + SumSeq(Tail(s))

(***************************************************************************)
(* Conversions of model_dump(mode='json'): a UUID becomes its canonical    *)
(* string, a datetime its ISO-8601 string.                                 *)
(***************************************************************************)
UuidStr(u) == <<"uuid", u>>
IsoFormat(t) == <<"iso", t>>

(***************************************************************************)
(* Risk scoring engine (source.py).                                        *)
(***************************************************************************)
SCORING_RUBRIC_mlAsTwo(v) ==
    CASE v = "LOW" -> 1 [] v = "MEDIUM" -> 3 [] v = "HIGH" -> 5
      [] v = "PUBLIC" -> 1 [] v = "INTERNAL" -> 2 [] v = "CONFIDENTIAL" -> 4
      [] v = "REGULATED_PII" -> 5
      [] v = "ADVISORY" -> 1 [] v = "HUMAN_APPROVAL" -> 3 [] v = "FULLY_AUTOMATED" -> 5
      [] v = "ML" -> 2 [] v = "LLM" -> 4 [] v = "AGENT" -> 5
      [] v = "INTERNAL_ONLY" -> 1 [] v = "BATCH" -> 2 [] v = "HUMAN_IN_LOOP" -> 3
      [] v = "REAL_TIME" -> 4

SCORING_RUBRIC(v) ==
    CASE v = "LOW" -> 1 [] v = "MEDIUM" -> 3 [] v = "HIGH" -> 5
      [] v = "PUBLIC" -> 1 [] v = "INTERNAL" -> 2 [] v = "CONFIDENTIAL" -> 4
      [] v = "REGULATED_PII" -> 5
      [] v = "ADVISORY" -> 1 [] v = "HUMAN_APPROVAL" -> 3 [] v = "FULLY_AUTOMATED" -> 5
      [] v = "ML" -> 3 [] v = "LLM" -> 4 [] v = "AGENT" -> 5
      [] v = "INTERNAL_ONLY" -> 1 [] v = "BATCH" -> 2 [] v = "HUMAN_IN_LOOP" -> 3
      [] v = "REAL_TIME" -> 4

score_external_dependencies_len(dependencies) == 2 * Len(dependencies)

score_external_dependencies(dependencies) ==
    IF dependencies # <<>> THEN 2 ELSE 0

TIER_1_MIN == 22
TIER_2_MIN == 15
TIER_2_MAX == 21
TIER_3_MAX == 14

\* The order in which calculate_risk_tier fills score_breakdown.
ScoreKeys == <<"decision_criticality_score", "data_sensitivity_score",
               "automation_level_score", "ai_type_score",
               "deployment_mode_score", "external_dependencies_score">>

REQUIRED_CONTROLS(tier) ==
    CASE tier = "TIER_1" -> <<"Independent validation", "Full documentation pack",
                              "Robustness & security testing",
                              "Bias & interpretability assessment",
                              "Monitoring dashboards",
                              "Formal change control & rollback",
                              "Incident response plan">>
      [] tier = "TIER_2" -> <<"Peer validation", "Standard documentation",
                              "Basic robustness & security tests",
                              "Periodic monitoring">>
      [] tier = "TIER_3" -> <<"Basic documentation", "Basic testing",
                              "Periodic review">>

ComponentScores(system) ==
    [decision_criticality_score  |-> SCORING_RUBRIC(system.decision_criticality),
     data_sensitivity_score      |-> SCORING_RUBRIC(system.data_sensitivity),
     automation_level_score      |-> SCORING_RUBRIC(system.automation_level),
     ai_type_score               |-> SCORING_RUBRIC(system.ai_type),
     deployment_mode_score       |-> SCORING_RUBRIC(system.deployment_mode),
     external_dependencies_score |->
         score_external_dependencies(system.external_dependencies)]

TotalScore_dropLast(b) == SumSeq([i \in 1..(Len(ScoreKeys) - 1) |-> b[ScoreKeys[i]]])

\* sum(score_breakdown.values()) over the six entries present at that point.
TotalScore(b) == SumSeq([i \in 1..Len(ScoreKeys) |-> b[ScoreKeys[i]]])

TierOf_strict(total_score) ==
    IF total_score > TIER_1_MIN THEN "TIER_1"
    ELSE IF TIER_2_MIN < total_score /\ total_score <= TIER_2_MAX THEN "TIER_2"
    ELSE "TIER_3"

\* The if / elif / else of calculate_risk_tier.
TierOf(total_score) ==
    IF total_score >= TIER_1_MIN THEN "TIER_1"
    ELSE IF TIER_2_MIN <= total_score /\ total_score <= TIER_2_MAX THEN "TIER_2"
    ELSE "TIER_3"

\* The f-string justification, kept as its pieces.
AutoJustification(name, total_score, tier) ==
    <<"The AI system '", name, "' scored ", ToString(total_score),
      " points, placing it in ", tier, " based on its characteristics.">>

calculate_risk_tier_lowestControls(system, t) ==
    LET comp  == ComponentScores(system)
        total == TotalScore(comp)
        tier  == TierOf(total)
    IN [system_id         |-> system.system_id,
        risk_tier         |-> tier,
        score_breakdown   |->
            [k \in Range(ScoreKeys) \cup {"total_score"} |->
                IF k = "total_score" THEN total ELSE comp[k]],
        justification     |-> AutoJustification(system.name, total, tier),
        required_controls |-> REQUIRED_CONTROLS("TIER_3"),
        computed_at       |-> t,
        scoring_version   |-> "1.0"]

calculate_risk_tier(system, t) ==
    LET comp  == ComponentScores(system)
        total == TotalScore(comp)
        tier  == TierOf(total)
    IN [system_id         |-> system.system_id,
        risk_tier         |-> tier,
        score_breakdown   |->
            [k \in Range(ScoreKeys) \cup {"total_score"} |->
                IF k = "total_score" THEN total ELSE comp[k]],
        justification     |-> AutoJustification(system.name, total, tier),
        required_controls |-> REQUIRED_CONTROLS(tier),
        computed_at       |-> t,
        scoring_version   |-> "1.0"]

(***************************************************************************)
(* Text.  A str is a TLA+ string; strip(), lower() and len() are tabulated *)
(* over the strings of the model (strip and lower are the identity on the  *)
(* strings that have no surrounding blanks, resp. no upper-case letter).   *)
(***************************************************************************)
Strip(s) ==
    CASE s = "   " -> ""
      [] s = " Fraud Bot " -> "Fraud Bot"
      [] OTHER -> s

Lower(s) ==
    CASE s = "Fraud Bot" -> "fraud bot"
      [] s = "ML-based Credit Underwriting Model" -> "ml-based credit underwriting model"
      [] s = "ML-BASED CREDIT UNDERWRITING MODEL" -> "ml-based credit underwriting model"
      [] s = "LLM-based Customer Support Assistant" -> "llm-based customer support assistant"
      [] s = "Agentic Internal Report Generator" -> "agentic internal report generator"
      [] OTHER -> s

\* A text of 1001 characters (longer than every limit of the forms).
LongText == "a text of 1001 characters"

StrLen(s) ==
    CASE s = "" -> 0
      [] s = LongText -> 1001
      [] s = "   " -> 3
      [] s = "AI" -> 2
      [] s = "Too short" -> 9
      [] s = "Fraud Bot" -> 9
      [] s = " Fraud Bot " -> 11
      [] s = "fraud bot" -> 9
      [] s = "Risk Lead" -> 9
      [] s = "Flags suspicious card payments." -> 31
      [] s = "Payments" -> 8
      [] s = "Model drifts after a schema change." -> 35
      [] s = "Pin the schema and alert on drift." -> 34
      [] s = "Reviewed by the model risk committee." -> 37
      [] s = "ML-based Credit Underwriting Model" -> 34
      [] s = "ML-BASED CREDIT UNDERWRITING MODEL" -> 34
      [] s = "LLM-based Customer Support Assistant" -> 36
      [] s = "Agentic Internal Report Generator" -> 33
      [] s = "The AI system '" -> 15
      [] s = "' scored " -> 9
      [] s = " points, placing it in " -> 23
      [] s = " based on its characteristics." -> 30
      [] s = "TIER_1" -> 6
      [] s = "TIER_2" -> 6
      [] s = "TIER_3" -> 6
      [] s = "Bias in historical training data leads to unfair lending decisions for certain demographics." -> 92
      [] s = "Model overfits to training data, leading to poor generalization on new applicants." -> 82
      [] s = "Data drift leads to degradation of model performance in production over time." -> 77
      [] s = "Inability to explain model decisions to regulators or customers, leading to compliance issues." -> 94
      [] s = "LLM ingests sensitive customer information during RAG retrieval and potentially exposes it." -> 91
      [] s = "LLM generates incorrect or misleading information, damaging customer trust." -> 75
      [] s = "LLM experiences hallucinations or fails to respond due to unforeseen edge cases." -> 80
      [] s = "Agent misunderstands query intent leading to irrelevant or incorrect reports." -> 77
      [] s = "Agent accesses unauthorized internal data sources during report generation." -> 75
      [] s = "..." -> 3
      [] s = "Signed off by the risk committee after the review" -> 49
      [] s = "Signed off by the risk committee after its reviews" -> 50
      [] s = "Scores shift when the upstream feed changes its schema unannounced." -> 67
      [] s = "Scores shift when the upstream feeds change their schema unannounced" -> 68
      [] s \in {ToString(n) : n \in 0..9} -> 1
      [] s \in {ToString(n) : n \in 10..99} -> 2

(***************************************************************************)
(* Domain model (source.py): pydantic records and their construction.      *)
(***************************************************************************)
\* A rejected construction (pydantic raises ValidationError).
ValidationError == [error |-> "ValidationError"]

SystemRecord(system_id, name, description, domain, ai_type, owner_role, deployment_mode, decision_criticality, automation_level, data_sensitivity, external_dependencies, last_updated) ==
    IF /\ ai_type \in AIType
       /\ deployment_mode \in DeploymentMode
       /\ decision_criticality \in DecisionCriticality
       /\ automation_level \in AutomationLevel
       /\ data_sensitivity \in DataSensitivity
    THEN [system_id |-> system_id, name |-> name, description |-> description,
          domain |-> domain, ai_type |-> ai_type, owner_role |-> owner_role,
          deployment_mode |-> deployment_mode,
          decision_criticality |-> decision_criticality,
          automation_level |-> automation_level,
          data_sensitivity |-> data_sensitivity,
          external_dependencies |-> external_dependencies,
          last_updated |-> last_updated]
    ELSE ValidationError

\* LifecycleRisk.model_post_init: severity is overwritten by impact * likelihood.
model_post_init(self) == [self EXCEPT !.severity = self.impact * self.likelihood]

\* The record type, had impact and likelihood been plain int fields.
LifecycleRisk_unbounded(risk_id, system_id, lifecycle_phase, risk_category, risk_statement, impact, likelihood, severity, mitigation, owner_role, evidence_links, created_at) ==
    IF /\ lifecycle_phase \in LifecyclePhase
       /\ risk_category \in RiskCategory
    THEN model_post_init(
           [risk_id |-> risk_id, system_id |-> system_id,
            lifecycle_phase |-> lifecycle_phase, risk_category |-> risk_category,
            risk_statement |-> risk_statement, impact |-> impact,
            likelihood |-> likelihood, severity |-> severity,
            mitigation |-> mitigation, owner_role |-> owner_role,
            evidence_links |-> evidence_links, created_at |-> created_at])
    ELSE ValidationError

\* LifecycleRisk(...): field validation (ge=1, le=5), then model_post_init.
LifecycleRisk(risk_id, system_id, lifecycle_phase, risk_category, risk_statement, impact, likelihood, severity, mitigation, owner_role, evidence_links, created_at) ==
    IF /\ lifecycle_phase \in LifecyclePhase
       /\ risk_category \in RiskCategory
       /\ impact \in 1..5
       /\ likelihood \in 1..5
    THEN model_post_init(
           [risk_id |-> risk_id, system_id |-> system_id,
            lifecycle_phase |-> lifecycle_phase, risk_category |-> risk_category,
            risk_statement |-> risk_statement, impact |-> impact,
            likelihood |-> likelihood, severity |-> severity,
            mitigation |-> mitigation, owner_role |-> owner_role,
            evidence_links |-> evidence_links, created_at |-> created_at])
    ELSE ValidationError

EvidenceArtifact(name, path, sha256) == [name |-> name, path |-> path, sha256 |-> sha256]

EvidenceManifest(run_id, generated_at, team_or_user, artifacts) ==
    [run_id |-> run_id, generated_at |-> generated_at, team_or_user |-> team_or_user,
     app_version |-> "1.0.0", inputs_hash |-> None, outputs_hash |-> None,
     artifacts |-> artifacts]

(***************************************************************************)
(* Seed data (source.py, executed at import).  Identifiers 1..3 stand for  *)
(* the systems' uuid4 values, 11..19 for the risks'; the import instant is *)
(* clock value 0.                                                          *)
(***************************************************************************)
ai_systems_data ==
    << SystemRecord(1, "ML-based Credit Underwriting Model",
                    "Automates credit assessment for loan applications.",
                    "Retail Banking", "ML", "Head of Lending Products", "REAL_TIME",
                    "HIGH", "FULLY_AUTOMATED", "REGULATED_PII",
                    <<"Credit Bureau API", "Fraud Detection Service">>, 0),
       SystemRecord(2, "LLM-based Customer Support Assistant",
                    "Provides initial support to customers by answering FAQs and routing queries.",
                    "Customer Service", "LLM", "Head of Customer Experience",
                    "HUMAN_IN_LOOP", "MEDIUM", "ADVISORY", "CONFIDENTIAL",
                    <<"Internal Knowledge Base API">>, 0),
       SystemRecord(3, "Agentic Internal Report Generator",
                    "Automates the generation of internal compliance and operational reports by accessing various internal data sources.",
                    "Internal Operations", "AGENT", "Head of Operations",
                    "INTERNAL_ONLY", "LOW", "FULLY_AUTOMATED", "INTERNAL",
                    <<"Internal Reporting DB", "Document Management System API">>, 0) >>

\* The risks in the order source.py constructs them (before the sort).
seed_lifecycle_risks ==
    << LifecycleRisk(11, 1, "DESIGN", "BIAS_FAIRNESS",
         "Bias in historical training data leads to unfair lending decisions for certain demographics.",
         5, 4, 0,
         "Implement fairness metrics, re-balance training data, and conduct adversarial testing.",
         "Data Scientist Lead", <<>>, 0),
       LifecycleRisk(12, 1, "DEVELOPMENT", "PERFORMANCE_ROBUSTNESS",
         "Model overfits to training data, leading to poor generalization on new applicants.",
         4, 3, 0,
         "Utilize regularization techniques, cross-validation, and hold-out test sets.",
         "ML Engineer", <<>>, 0),
       LifecycleRisk(13, 1, "MONITORING", "OPERATIONAL_RELIABILITY",
         "Data drift leads to degradation of model performance in production over time.",
         5, 4, 0,
         "Implement continuous monitoring of input data and model predictions, with alerts for drift.",
         "Model Operations", <<>>, 0),
       LifecycleRisk(14, 1, "DEPLOYMENT", "LEGAL_REGULATORY",
         "Inability to explain model decisions to regulators or customers, leading to compliance issues.",
         5, 3, 0,
         "Develop XAI (Explainable AI) tools and documentation for model interpretations.",
         "Compliance Officer", <<>>, 0),
       LifecycleRisk(15, 2, "TRAINING", "DATA_PRIVACY_SECURITY",
         "LLM ingests sensitive customer information during RAG retrieval and potentially exposes it.",
         4, 3, 0,
         "Implement strict access controls for RAG sources and data anonymization techniques.",
         "Information Security", <<>>, 0),
       LifecycleRisk(16, 2, "DEPLOYMENT", "REPUTATIONAL",
         "LLM generates incorrect or misleading information, damaging customer trust.",
         4, 4, 0,
         "Implement human-in-the-loop review, strict prompt engineering, and guardrails for output generation.",
         "Product Manager", <<>>, 0),
       LifecycleRisk(17, 2, "MONITORING", "OPERATIONAL_RELIABILITY",
         "LLM experiences hallucinations or fails to respond due to unforeseen edge cases.",
         3, 3, 0,
         "Continuously log and review LLM interactions, update knowledge base and fine-tune guardrails.",
         "ML Engineer", <<>>, 0),
       LifecycleRisk(18, 3, "DESIGN", "OPERATIONAL_RELIABILITY",
         "Agent misunderstands query intent leading to irrelevant or incorrect reports.",
         3, 2, 0,
         "Implement clear tool descriptions and validation of generated report content.",
         "AI Architect", <<>>, 0),
       LifecycleRisk(19, 3, "DEPLOYMENT", "DATA_PRIVACY_SECURITY",
         "Agent accesses unauthorized internal data sources during report generation.",
         3, 2, 0,
         "Enforce strict access control policies for agent's service account and data sources.",
         "Information Security", <<>>, 0) >>

(***************************************************************************)
(* Sorting.                                                                *)
(***************************************************************************)
SeverityKey(x) == x.severity

\* Insert x after every element whose severity is >= x's: the stable descending insert.
RECURSIVE InsertDesc(_, _)
InsertDesc(x, s) ==
    IF s = <<>> THEN <<x>>
    ELSE IF SeverityKey(Head(s)) >= SeverityKey(x) THEN <<Head(s)>> \o InsertDesc(x, Tail(s))
    ELSE <<x>> \o s

RECURSIVE StableSortDesc(_)
StableSortDesc(s) ==
    IF s = <<>> THEN <<>>
    ELSE InsertDesc(s[Len(s)], StableSortDesc(SubSeq(s, 1, Len(s) - 1)))

\* lifecycle_risks.sort(key=lambda x: x.severity, reverse=True): list.sort is
\* stable, and stays stable under reverse=True.
sort_by_severity(risks) == StableSortDesc(risks)

\* The positions of the rows of maximal severity among those not yet placed.
MaxKeyPositions(s, left) ==
    {i \in left : \A j \in left : SeverityKey(s[i]) >= SeverityKey(s[j])}

\* Every ordering of s with non-increasing severity, as sequences of positions of s.
RECURSIVE DescOrders(_, _)
DescOrders(s, left) ==
    IF left = {} THEN {<<>>}
    ELSE UNION {{<<i>> \o rest : rest \in DescOrders(s, left \ {i})} :
                i \in MaxKeyPositions(s, left)}

\* df.sort_values(by='severity', ascending=False): pandas sorts with its default
\* kind='quicksort', which does not keep the order of equal keys, so the result
\* is any ordering of the rows with non-increasing severity.
sort_values_desc(rows) ==
    {[k \in 1..Len(rows) |-> rows[ord[k]]] : ord \in DescOrders(rows, DOMAIN rows)}

(***************************************************************************)
(* model_dump(mode='json') of the three record types.                      *)
(***************************************************************************)
DumpSystem(x) ==
    [x EXCEPT !.system_id = UuidStr(@), !.last_updated = IsoFormat(@)]

DumpResult_dayOnly(r) ==
    [r EXCEPT !.system_id = UuidStr(@),
              !.computed_at = IsoFormat((@ \div TicksPerDay) * TicksPerDay)]

DumpResult(r) ==
    [r EXCEPT !.system_id = UuidStr(@), !.computed_at = IsoFormat(@)]

DumpRisk(lr) ==
    [lr EXCEPT !.risk_id = UuidStr(@), !.system_id = UuidStr(@),
               !.created_at = IsoFormat(@)]

(***************************************************************************)
(* Validation of a parsed JSON object by the record types: pydantic turns   *)
(* the canonical string back into the UUID and the ISO-8601 string into    *)
(* the datetime, checks the enumerations and ranges, and (LifecycleRisk)    *)
(* runs model_post_init.                                                   *)
(***************************************************************************)
ParseUuid(text) == IF text[1] = "uuid" THEN text[2] ELSE ValidationError
ParseIso(text) == IF text[1] = "iso" THEN text[2] ELSE ValidationError

\* RiskTierResult(**obj)
ParseResult(obj) ==
    IF obj.risk_tier \in RiskTier
    THEN [system_id |-> ParseUuid(obj.system_id), risk_tier |-> obj.risk_tier,
          score_breakdown |-> obj.score_breakdown, justification |-> obj.justification,
          required_controls |-> obj.required_controls,
          computed_at |-> ParseIso(obj.computed_at),
          scoring_version |-> obj.scoring_version]
    ELSE ValidationError

\* LifecycleRisk(**obj)
ParseRisk(obj) ==
    LifecycleRisk(ParseUuid(obj.risk_id), ParseUuid(obj.system_id), obj.lifecycle_phase,
                  obj.risk_category, obj.risk_statement, obj.impact, obj.likelihood,
                  obj.severity, obj.mitigation, obj.owner_role, obj.evidence_links,
                  ParseIso(obj.created_at))

\* json.load of a file written by export_pydantic_list_to_json.
JsonLoad(content) == IF content[1] = "json" THEN content[2] ELSE ValidationError

(***************************************************************************)
(* _update_dataframes (app.py): the id map and the three tables are        *)
(* rebuilt from the session lists.                                         *)
(***************************************************************************)
\* {str(s.system_id): s.name for s in records}: a later record overwrites an
\* earlier one with the same key.
IdMapOf(records) ==
    [k \in {UuidStr(x.system_id) : x \in Range(records)} |->
        LET last == CHOOSE i \in DOMAIN records :
                       /\ UuidStr(records[i].system_id) = k
                       /\ \A j \in DOMAIN records :
                            UuidStr(records[j].system_id) = k => j <= i
        IN records[last].name]

\* system_id_map.get(id, "Unknown"), then the search through the records.
ResolveName(idmap, records, sid) ==
    LET got == IF UuidStr(sid) \in DOMAIN idmap THEN idmap[UuidStr(sid)] ELSE "Unknown"
        hits == {i \in DOMAIN records : records[i].system_id = sid}
    IN IF got = "Unknown" /\ records # <<>> /\ hits # {}
       THEN records[CHOOSE i \in hits : \A j \in hits : i <= j].name
       ELSE got

InventoryRows(records) == [i \in DOMAIN records |-> DumpSystem(records[i])]

RiskTierRows(records, results) ==
    [i \in DOMAIN results |->
        [system_name |-> ResolveName(IdMapOf(records), records, results[i].system_id)]
        @@ DumpResult(results[i])]

LifecycleRows(records, risks) ==
    [i \in DOMAIN risks |->
        [system_name |-> ResolveName(IdMapOf(records), records, risks[i].system_id),
         severity |-> risks[i].impact * risks[i].likelihood]
        @@ DumpRisk(risks[i])]

\* The column the sort reads.
SeverityColumn(rows) == [i \in DOMAIN rows |-> SeverityKey(rows[i])]

\* The positions in rows of the rows of a sorted table (a risk_id names a row).
RowOrder(table, rows) ==
    [k \in DOMAIN table |-> CHOOSE i \in DOMAIN rows : rows[i].risk_id = table[k].risk_id]

\* _update_dataframes(), had it built the id map at session start only.
update_dataframes_staleMap(records, results, risks) ==
    LET rows   == LifecycleRows(records, risks)
        before == LifecycleRows(system_records, lifecycle_risks)
    IN /\ df_inventory' = InventoryRows(records)
       /\ system_id_map' = system_id_map
       /\ df_risk_tier' = RiskTierRows(records, results)
       /\ df_lifecycle_risk' \in
              IF SeverityColumn(rows) = SeverityColumn(before)
              THEN {[k \in DOMAIN rows |-> rows[RowOrder(df_lifecycle_risk, before)[k]]]}
              ELSE sort_values_desc(rows)

\* _update_dataframes(), run by every handler that changed the data. The sort
\* is a function of the severity column alone: a column equal to the one the
\* current table was sorted from gives the same order of positions again.
update_dataframes(records, results, risks) ==
    LET rows   == LifecycleRows(records, risks)
        before == LifecycleRows(system_records, lifecycle_risks)
    IN /\ df_inventory' = InventoryRows(records)
       /\ system_id_map' = IdMapOf(records)
       /\ df_risk_tier' = RiskTierRows(records, results)
       /\ df_lifecycle_risk' \in
              IF SeverityColumn(rows) = SeverityColumn(before)
              THEN {[k \in DOMAIN rows |-> rows[RowOrder(df_lifecycle_risk, before)[k]]]}
              ELSE sort_values_desc(rows)

(***************************************************************************)
(* Output locations.                                                       *)
(***************************************************************************)
\* os.path.join(directory, name); os.path.basename is the second component.
PathJoin(directory, name) == <<directory, name>>
BaseName(path) == path[2]
DirName(path) == path[1]

\* generate_unique_output_dir: export_<timestamp>_<first 8 of a uuid4> under the
\* base directory; the uuid drawn at instant t is unique to t.
generate_unique_output_dir(t) == <<"output_artifacts", "export", t, 100 + t>>

NoFiles == [p \in {} |-> None]

\* open(path, 'w') and write.
WriteFile(files, path, content) ==
    [p \in DOMAIN files \cup {path} |-> IF p = path THEN content ELSE files[p]]

\* The archive path: "audit_package_ai_governance.zip" in the working directory.
ZipPath == PathJoin(<<".">>, "audit_package_ai_governance.zip")

\* What importing source.py leaves on disk that the session can meet again: the
\* base directory and the archive it packed there.
\* Directories carry the modification time cleanup_old_export_folders reads;
\* the base directory's own time is never read and stays at 0.
ImportDirs == [d \in {<<"output_artifacts">>} |-> 0]

\* os.makedirs(directory, exist_ok=True) at instant t.
MakeDirs(dirs, directory, t) ==
    IF directory \in DOMAIN dirs THEN dirs
    ELSE [d \in DOMAIN dirs \cup {directory} |-> IF d = directory THEN t ELSE dirs[d]]

\* Creating files changes the modification time of their directory; rewriting
\* files that exist does not.
TouchDirs(dirs, files, paths, t) ==
    [d \in DOMAIN dirs |->
        IF \E p \in paths : DirName(p) = d /\ p \notin DOMAIN files THEN t ELSE dirs[d]]

\* shutil.rmtree(directory): the directory entry goes.
RemoveDir(dirs, directory) == [d \in DOMAIN dirs \ {directory} |-> dirs[d]]
ImportFiles == WriteFile(NoFiles, ZipPath, <<"zip", <<"output_artifacts">>>>)

\* The empty string of a text kept as its pieces.
EmptyText == <<>>

(***************************************************************************)
(* Session start (app.py, session-state initialisation and the first       *)
(* _update_dataframes).                                                    *)
(***************************************************************************)
InitSession(records, risks) ==
    /\ system_records = records
    /\ risk_tier_results = <<>>
    /\ lifecycle_risks = risks
    /\ df_inventory = InventoryRows(records)
    /\ system_id_map = IdMapOf(records)
    /\ df_risk_tier = <<>>
    /\ df_lifecycle_risk \in sort_values_desc(LifecycleRows(records, risks))
    /\ output_dir = generate_unique_output_dir(0)
    /\ generated_files = <<>>
    /\ evidence_manifest = None
    /\ executive_summary_content = EmptyText
    /\ fs = [dirs |-> ImportDirs, files |-> ImportFiles]
    /\ download = None
    /\ msgs = <<>>
    /\ now = 0
    /\ pc = "ready"
    /\ peer = None

Init == InitSession(ai_systems_data, sort_by_severity(seed_lifecycle_risks))

(***************************************************************************)
(* Messages shown by a handler run.                                        *)
(***************************************************************************)
Success(text) == <<"success", text>>
Warning(text) == <<"warning", text>>
Error(text) == <<"error", text>>
Errors(texts) == [i \in DOMAIN texts |-> Error(texts[i])]

\* A handler run happens at the next clock instant.
Tick == now' = now + 1

(***************************************************************************)
(* AI System Inventory page.                                               *)
(***************************************************************************)
\* The length rules of a required text field (min and max as in the form).
TextErrors(value, label, min, max) ==
    IF Strip(value) = "" THEN <<label \o " is required">>
    ELSE IF StrLen(Strip(value)) < min THEN <<label \o " is too short">>
    ELSE IF StrLen(Strip(value)) > max THEN <<label \o " is too long">>
    ELSE <<>>

NameTaken_caseSensitive(records, name, except) ==
    \E i \in DOMAIN records :
        /\ records[i].name = Strip(name)
        /\ UuidStr(records[i].system_id) # except

\* any(s.name.lower() == name.strip().lower() [and str(s.system_id) != id] ...)
NameTaken(records, name, except) ==
    \E i \in DOMAIN records :
        /\ Lower(records[i].name) = Lower(Strip(name))
        /\ UuidStr(records[i].system_id) # except

\* The validation of the name, had it checked the text only.
NameErrors_textOnly(records, name, except) ==
    TextErrors(name, "Name", 3, 200)

NameErrors(records, name, except) ==
    IF TextErrors(name, "Name", 3, 200) # <<>> THEN TextErrors(name, "Name", 3, 200)
    ELSE IF NameTaken(records, name, except)
         THEN <<"An AI system with this name already exists">>
    ELSE <<>>

SystemFormErrors(records, form, except) ==
    NameErrors(records, form.name, except)
    \o TextErrors(form.description, "Description", 10, 1000)
    \o TextErrors(form.domain, "Domain", 2, 100)
    \o TextErrors(form.owner_role, "Owner Role", 2, 100)

\* What the model types into the add / edit system forms.
SystemForms ==
    { [name |-> " Fraud Bot ", description |-> "Flags suspicious card payments.",
       domain |-> "Payments", owner_role |-> "Risk Lead", ai_type |-> "ML",
       deployment_mode |-> "REAL_TIME", decision_criticality |-> "HIGH",
       automation_level |-> "HUMAN_APPROVAL", data_sensitivity |-> "CONFIDENTIAL",
       external_dependencies |-> <<"Cloud AI Service">>],
      [name |-> "fraud bot", description |-> "Flags suspicious card payments.",
       domain |-> "Payments", owner_role |-> "Risk Lead", ai_type |-> "ML",
       deployment_mode |-> "INTERNAL_ONLY", decision_criticality |-> "LOW",
       automation_level |-> "ADVISORY", data_sensitivity |-> "PUBLIC",
       external_dependencies |-> <<>>],
      [name |-> "ML-BASED CREDIT UNDERWRITING MODEL",
       description |-> "Flags suspicious card payments.",
       domain |-> "Payments", owner_role |-> "Risk Lead", ai_type |-> "LLM",
       deployment_mode |-> "BATCH", decision_criticality |-> "MEDIUM",
       automation_level |-> "ADVISORY", data_sensitivity |-> "INTERNAL",
       external_dependencies |-> <<>>],
      [name |-> "   ", description |-> "Too short", domain |-> "",
       owner_role |-> "", ai_type |-> "ML", deployment_mode |-> "BATCH",
       decision_criticality |-> "LOW", automation_level |-> "ADVISORY",
       data_sensitivity |-> "PUBLIC", external_dependencies |-> <<>>] }

\* The "Add AI System" form submission.
AddSystem(form) ==
    LET errs == SystemFormErrors(system_records, form, None)
        new_system == SystemRecord(100 + now', Strip(form.name), Strip(form.description),
                          Strip(form.domain), form.ai_type, Strip(form.owner_role),
                          form.deployment_mode, form.decision_criticality,
                          form.automation_level, form.data_sensitivity,
                          form.external_dependencies, now')
    IN /\ Tick
       /\ IF errs # <<>>
          THEN /\ msgs' = Errors(errs)
               /\ UNCHANGED <<dataVars, viewVars>>
          ELSE IF new_system = ValidationError
          THEN /\ msgs' = <<Error("Validation Error")>>
               /\ UNCHANGED <<dataVars, viewVars>>
          ELSE /\ Len(system_records) < MaxSystems
               /\ system_records' = Append(system_records, new_system)
               /\ UNCHANGED <<risk_tier_results, lifecycle_risks>>
               /\ update_dataframes(system_records', risk_tier_results, lifecycle_risks)
               /\ msgs' = <<Success("AI System '" \o Strip(form.name) \o "' added successfully!")>>
       /\ UNCHANGED <<exportVars, sharedVars>>

\* The "Update AI System" form submission for the system picked in the selectbox.
EditSystem(selected_edit_id, form) ==
    LET errs == SystemFormErrors(system_records, form, selected_edit_id)
        hits == {i \in DOMAIN system_records :
                    UuidStr(system_records[i].system_id) = selected_edit_id}
        sel  == CHOOSE i \in hits : \A j \in hits : i <= j
    IN /\ hits # {}
       /\ Tick
       /\ IF errs # <<>>
          THEN /\ msgs' = Errors(errs)
               /\ UNCHANGED <<dataVars, viewVars>>
          ELSE /\ system_records' =
                    [system_records EXCEPT ![sel] =
                        [@ EXCEPT !.name = Strip(form.name),
                                  !.description = Strip(form.description),
                                  !.domain = Strip(form.domain),
                                  !.ai_type = form.ai_type,
                                  !.owner_role = Strip(form.owner_role),
                                  !.deployment_mode = form.deployment_mode,
                                  !.decision_criticality = form.decision_criticality,
                                  !.automation_level = form.automation_level,
                                  !.data_sensitivity = form.data_sensitivity,
                                  !.external_dependencies = form.external_dependencies,
                                  !.last_updated = now']]
               /\ UNCHANGED <<risk_tier_results, lifecycle_risks>>
               /\ update_dataframes(system_records', risk_tier_results, lifecycle_risks)
               /\ msgs' = <<Success("AI System '" \o Strip(form.name) \o "' updated successfully!")>>
       /\ UNCHANGED <<exportVars, sharedVars>>

\* [s for s in system_records if str(s.system_id) != selected_delete_id]
RemoveSystem(records, selected_delete_id) ==
    SelectSeq(records, LAMBDA x : UuidStr(x.system_id) # selected_delete_id)

RemoveTierResults_kept(results, selected_delete_id) == results

\* [r for r in risk_tier_results if str(r.system_id) != selected_delete_id]
RemoveTierResults(results, selected_delete_id) ==
    SelectSeq(results, LAMBDA r : UuidStr(r.system_id) # selected_delete_id)

RemoveLifecycleRisks_kept(risks, selected_delete_id) == risks

\* [lr for lr in lifecycle_risks if str(lr.system_id) != selected_delete_id]
RemoveLifecycleRisks(risks, selected_delete_id) ==
    SelectSeq(risks, LAMBDA lr : UuidStr(lr.system_id) # selected_delete_id)

\* The "Delete AI System" button (confirmation ticked).
DeleteSystem(selected_delete_id) ==
    LET hits == {i \in DOMAIN system_records :
                    UuidStr(system_records[i].system_id) = selected_delete_id}
        selected_system == system_records[CHOOSE i \in hits : \A j \in hits : i <= j]
    IN /\ hits # {}
       /\ Tick
       /\ system_records' = RemoveSystem(system_records, selected_delete_id)
       /\ risk_tier_results' = RemoveTierResults(risk_tier_results, selected_delete_id)
       /\ lifecycle_risks' = RemoveLifecycleRisks(lifecycle_risks, selected_delete_id)
       /\ update_dataframes(system_records', risk_tier_results', lifecycle_risks')
       /\ msgs' = <<Success("AI System '" \o selected_system.name
                            \o "' and its associated risks deleted successfully!")>>
       /\ UNCHANGED <<exportVars, sharedVars>>

(***************************************************************************)
(* Risk Tiering page.                                                      *)
(***************************************************************************)
\* The button, had it appended to the results of the earlier computation.
ComputeRiskTiers_appending ==
    /\ Tick
    /\ IF system_records # <<>>
       THEN /\ risk_tier_results' = risk_tier_results \o
                 [i \in DOMAIN system_records |->
                     calculate_risk_tier(system_records[i], now')]
            /\ UNCHANGED <<system_records, lifecycle_risks>>
            /\ update_dataframes(system_records, risk_tier_results', lifecycle_risks)
            /\ msgs' = <<Success("Risk tiers computed successfully!")>>
       ELSE /\ msgs' = <<Warning("No AI systems registered to compute risk tiers.")>>
            /\ UNCHANGED <<dataVars, viewVars>>
    /\ UNCHANGED <<exportVars, sharedVars>>

\* The "Compute Risk Tiers for All Systems" button.
ComputeRiskTiers ==
    /\ Tick
    /\ IF system_records # <<>>
       THEN /\ risk_tier_results' =
                 [i \in DOMAIN system_records |->
                     calculate_risk_tier(system_records[i], now')]
            /\ UNCHANGED <<system_records, lifecycle_risks>>
            /\ update_dataframes(system_records, risk_tier_results', lifecycle_risks)
            /\ msgs' = <<Success("Risk tiers computed successfully!")>>
       ELSE /\ msgs' = <<Warning("No AI systems registered to compute risk tiers.")>>
            /\ UNCHANGED <<dataVars, viewVars>>
    /\ UNCHANGED <<exportVars, sharedVars>>

\* What the model types into the justification text area.
JustificationInputs == { <<"Reviewed by the model risk committee.">> }

SaveJustification_allResults(selected_risk_system_id, new_justification) ==
    /\ \E i \in DOMAIN risk_tier_results :
           UuidStr(risk_tier_results[i].system_id) = selected_risk_system_id
    /\ Tick
    /\ risk_tier_results' =
           [i \in DOMAIN risk_tier_results |->
               [risk_tier_results[i] EXCEPT !.justification = new_justification]]
    /\ UNCHANGED <<system_records, lifecycle_risks>>
    /\ update_dataframes(system_records, risk_tier_results', lifecycle_risks)
    /\ msgs' = <<Success("Justification updated successfully!")>>
    /\ UNCHANGED <<exportVars, sharedVars>>

\* The "Save Justification" button for the result picked in the selectbox.
SaveJustification(selected_risk_system_id, new_justification) ==
    LET hits == {i \in DOMAIN risk_tier_results :
                    UuidStr(risk_tier_results[i].system_id) = selected_risk_system_id}
        sel  == CHOOSE i \in hits : \A j \in hits : i <= j
    IN /\ hits # {}
       /\ Tick
       /\ risk_tier_results' =
              [risk_tier_results EXCEPT ![sel].justification = new_justification]
       /\ UNCHANGED <<system_records, lifecycle_risks>>
       /\ update_dataframes(system_records, risk_tier_results', lifecycle_risks)
       /\ msgs' = <<Success("Justification updated successfully!")>>
       /\ UNCHANGED <<exportVars, sharedVars>>

(***************************************************************************)
(* Lifecycle Risk Mapping page.                                            *)
(***************************************************************************)
\* [url.strip() for url in input.split(",") if url.strip()], tabulated over the
\* strings the model types into the evidence-links field.
ParseLinks(input) ==
    CASE Strip(input) = "" -> <<>>
      [] input = "https://example.com/doc1" -> <<"https://example.com/doc1">>
      [] input = "https://example.com/doc1, not a url" ->
             <<"https://example.com/doc1", "not a url">>

\* url_pattern.match(url), tabulated over the same strings.
UrlMatches(url) ==
    CASE url = "https://example.com/doc1" -> TRUE
      [] url = "not a url" -> FALSE

\* The loop over the links stops at the first malformed one.
LinkErrors(links) ==
    LET bad == {i \in DOMAIN links : ~UrlMatches(links[i])}
    IN IF bad = {} THEN <<>>
       ELSE <<"Invalid URL format: " \o links[CHOOSE i \in bad : \A j \in bad : i <= j]>>

RiskFormErrors(form) ==
    TextErrors(form.risk_statement, "Risk Statement", 10, 1000)
    \o TextErrors(form.mitigation, "Mitigation", 10, 1000)
    \o TextErrors(form.owner_role, "Owner Role", 2, 100)
    \o LinkErrors(ParseLinks(form.evidence_links_input))

\* What the model types into the add / edit lifecycle-risk forms; the sliders
\* give impact and likelihood in 1..5.
RiskForms ==
    { [lifecycle_phase |-> "MONITORING", risk_category |-> "PERFORMANCE_ROBUSTNESS",
       risk_statement |-> "Model drifts after a schema change.",
       impact |-> 5, likelihood |-> 5,
       mitigation |-> "Pin the schema and alert on drift.",
       owner_role |-> "Risk Lead",
       evidence_links_input |-> "https://example.com/doc1"],
      [lifecycle_phase |-> "DESIGN", risk_category |-> "REPUTATIONAL",
       risk_statement |-> "Too short", impact |-> 1, likelihood |-> 1,
       mitigation |-> "Pin the schema and alert on drift.",
       owner_role |-> "", evidence_links_input |-> "https://example.com/doc1, not a url"] }

\* The "Add Lifecycle Risk" form submission (shown when the inventory is not empty).
AddLifecycleRisk(selected_system_for_risk, form) ==
    LET errs == RiskFormErrors(form)
        new_risk == LifecycleRisk(100 + now', selected_system_for_risk,
                        form.lifecycle_phase, form.risk_category,
                        Strip(form.risk_statement), form.impact, form.likelihood, 0,
                        Strip(form.mitigation), Strip(form.owner_role),
                        ParseLinks(form.evidence_links_input), now')
    IN /\ system_records # <<>>
       /\ \E i \in DOMAIN system_records :
              system_records[i].system_id = selected_system_for_risk
       /\ Tick
       /\ IF errs # <<>>
          THEN /\ msgs' = Errors(errs)
               /\ UNCHANGED <<dataVars, viewVars>>
          ELSE IF new_risk = ValidationError
          THEN /\ msgs' = <<Error("Validation Error")>>
               /\ UNCHANGED <<dataVars, viewVars>>
          ELSE /\ Len(lifecycle_risks) < MaxRisks
               /\ lifecycle_risks' = Append(lifecycle_risks, new_risk)
               /\ UNCHANGED <<system_records, risk_tier_results>>
               /\ update_dataframes(system_records, risk_tier_results, lifecycle_risks')
               /\ msgs' = <<Success("Lifecycle risk added successfully!")>>
       /\ UNCHANGED <<exportVars, sharedVars>>

EditedRisk_staleSeverity(risk, form) ==
    [risk EXCEPT !.lifecycle_phase = form.lifecycle_phase,
                 !.risk_category = form.risk_category,
                 !.risk_statement = Strip(form.risk_statement),
                 !.impact = form.impact,
                 !.likelihood = form.likelihood,
                 !.mitigation = Strip(form.mitigation),
                 !.owner_role = Strip(form.owner_role),
                 !.evidence_links = ParseLinks(form.evidence_links_input)]

\* The assignments of the edit handler, in place on the selected risk.
EditedRisk(risk, form) ==
    [risk EXCEPT !.lifecycle_phase = form.lifecycle_phase,
                 !.risk_category = form.risk_category,
                 !.risk_statement = Strip(form.risk_statement),
                 !.impact = form.impact,
                 !.likelihood = form.likelihood,
                 !.severity = form.impact * form.likelihood,
                 !.mitigation = Strip(form.mitigation),
                 !.owner_role = Strip(form.owner_role),
                 !.evidence_links = ParseLinks(form.evidence_links_input)]

\* The "Update Lifecycle Risk" form submission for the risk picked in the selectbox.
EditLifecycleRisk(selected_edit_risk_id, form) ==
    LET errs == RiskFormErrors(form)
        hits == {i \in DOMAIN lifecycle_risks :
                    UuidStr(lifecycle_risks[i].risk_id) = selected_edit_risk_id}
        sel  == CHOOSE i \in hits : \A j \in hits : i <= j
    IN /\ hits # {}
       /\ Tick
       /\ IF errs # <<>>
          THEN /\ msgs' = Errors(errs)
               /\ UNCHANGED <<dataVars, viewVars>>
          ELSE /\ lifecycle_risks' =
                    [lifecycle_risks EXCEPT ![sel] = EditedRisk(@, form)]
               /\ UNCHANGED <<system_records, risk_tier_results>>
               /\ update_dataframes(system_records, risk_tier_results, lifecycle_risks')
               /\ msgs' = <<Success("Lifecycle risk updated successfully!")>>
       /\ UNCHANGED <<exportVars, sharedVars>>

\* The "Delete Lifecycle Risk" button (confirmation ticked).
DeleteLifecycleRisk(selected_delete_risk_id) ==
    /\ \E i \in DOMAIN lifecycle_risks :
           UuidStr(lifecycle_risks[i].risk_id) = selected_delete_risk_id
    /\ Tick
    /\ lifecycle_risks' =
           SelectSeq(lifecycle_risks,
                     LAMBDA lr : UuidStr(lr.risk_id) # selected_delete_risk_id)
    /\ UNCHANGED <<system_records, risk_tier_results>>
    /\ update_dataframes(system_records, risk_tier_results, lifecycle_risks')
    /\ msgs' = <<Success("Lifecycle risk deleted successfully!")>>
    /\ UNCHANGED <<exportVars, sharedVars>>

(***************************************************************************)
(* Exports & Evidence page.                                                *)
(***************************************************************************)
\* datetime.now().strftime('%Y-%m-%d'): the calendar day of an instant.
DateOf(t) == <<"date", t \div TicksPerDay>>

\* Length of a text given as its pieces.
TextLen(text) == SumSeq([i \in DOMAIN text |-> StrLen(text[i])])

\* The shortening, had it kept as many characters as the limit allows.
Shorten_keepingLimit(text, keep, limit) ==
    IF TextLen(text) > limit THEN <<"prefix", limit, text, "...">> ELSE text

\* (text[:keep] + '...') if len(text) > limit else text
Shorten(text, keep, limit) ==
    IF TextLen(text) > limit THEN <<"prefix", keep, text, "...">> ELSE text

\* len() of a table cell: text[:keep] has keep characters, or all of a shorter
\* text, and the dots follow it.
RenderedLen(cell) ==
    IF Len(cell) = 4 /\ cell[1] = "prefix"
    THEN (IF TextLen(cell[3]) < cell[2] THEN TextLen(cell[3]) ELSE cell[2]) + StrLen(cell[4])
    ELSE TextLen(cell)

HeadRows(rows, n) == SubSeq(rows, 1, IF Len(rows) < n THEN Len(rows) ELSE n)

\* The markdown text of case1_executive_summary.md: the date line and the rows
\* of its three tables (the fixed prose between them is the same in every run).
ExecutiveSummary(inventory, tiers, risks, t) ==
    [date |-> DateOf(t),
     inventory |->
        [i \in DOMAIN inventory |->
            <<inventory[i].name, inventory[i].ai_type,
              inventory[i].decision_criticality, inventory[i].data_sensitivity>>],
     tiers |->
        IF tiers # <<>>
        THEN [i \in DOMAIN tiers |->
                <<tiers[i].system_name, tiers[i].risk_tier,
                  tiers[i].score_breakdown["total_score"],
                  Shorten(tiers[i].justification, 46, 49)>>]
        ELSE << <<"No risk tier data available for summary.">> >>,
     top_risks |->
        IF risks # <<>>
        THEN [i \in DOMAIN HeadRows(risks, 3) |->
                <<risks[i].system_name, Shorten(<<risks[i].risk_statement>>, 64, 67),
                  risks[i].severity, risks[i].lifecycle_phase>>]
        ELSE << <<"No lifecycle risk data available for summary.">> >>]

\* File contents, by the writer that produced them.
export_dataframe_to_csv(df) == <<"csv", df>>
export_pydantic_list_to_json(dumps) == <<"json", dumps>>
MarkdownFile(content) == <<"md", content>>

DumpArtifact(a) == a
DumpManifest(m) ==
    [run_id |-> UuidStr(m.run_id), generated_at |-> IsoFormat(m.generated_at),
     team_or_user |-> m.team_or_user,
     artifacts |-> [i \in DOMAIN m.artifacts |-> DumpArtifact(m.artifacts[i])]]

\* SHA-256 of the file's bytes: equal contents give equal digests.
\* The size of one f.read() in calculate_sha256.
ReadSize == 4096

RECURSIVE ReadBlocks_firstOnly(_, _)
ReadBlocks_firstOnly(content, pos) ==
    IF pos >= Len(content) THEN <<>>
    ELSE <<SubSeq(content, pos + 1,
                  IF pos + ReadSize < Len(content) THEN pos + ReadSize ELSE Len(content))>>

\* iter(lambda: f.read(4096), b""): the blocks read from offset pos on, up to
\* the first empty read.
RECURSIVE ReadBlocks(_, _)
ReadBlocks(content, pos) ==
    IF pos >= Len(content) THEN <<>>
    ELSE LET next == IF pos + ReadSize < Len(content) THEN pos + ReadSize
                     ELSE Len(content)
         IN <<SubSeq(content, pos + 1, next)>> \o ReadBlocks(content, next)

\* hashlib.sha256(): update(block) extends the message hashed so far, and
\* hexdigest() is the digest of that message (SHA-256 taken as free of
\* collisions: the digest stands for the message it was computed from).
RECURSIVE Sha256Updates(_, _)
Sha256Updates(message, blocks) ==
    IF blocks = <<>> THEN message
    ELSE Sha256Updates(message \o Head(blocks), Tail(blocks))

HexDigest(message) == <<"sha256", message>>

calculate_sha256(files, file_path) ==
    HexDigest(Sha256Updates(<<>>, ReadBlocks(files[file_path], 0)))

ManifestPath(directory) == PathJoin(directory, "evidence_manifest.json")

\* Rendering the page creates the session's export folder when it is missing.
RenderedDirs == MakeDirs(fs.dirs, output_dir, now')

\* The button, had it kept the paths listed before.
GenerateArtifacts_keepingList ==
    LET csv_path   == PathJoin(output_dir, "model_inventory.csv")
        tier_path  == PathJoin(output_dir, "risk_tiering.json")
        risk_path  == PathJoin(output_dir, "lifecycle_risk_map.json")
        md_path    == PathJoin(output_dir, "case1_executive_summary.md")
        summary    == ExecutiveSummary(df_inventory, df_risk_tier, df_lifecycle_risk, now')
        f1 == WriteFile(fs.files, csv_path, export_dataframe_to_csv(df_inventory))
        f2 == WriteFile(f1, tier_path,
                  export_pydantic_list_to_json(
                      [i \in DOMAIN risk_tier_results |-> DumpResult(risk_tier_results[i])]))
        f3 == WriteFile(f2, risk_path,
                  export_pydantic_list_to_json(
                      [i \in DOMAIN lifecycle_risks |-> DumpRisk(lifecycle_risks[i])]))
        f4 == WriteFile(f3, md_path, MarkdownFile(summary))
    IN /\ Tick
       /\ generated_files' = generated_files \o <<csv_path, tier_path, risk_path, md_path>>
       /\ fs' = [dirs |-> TouchDirs(RenderedDirs, fs.files, Range(generated_files'), now'),
                 files |-> f4]
       /\ executive_summary_content' = summary
       /\ msgs' = [i \in 1..4 |-> Success("Generated: " \o BaseName(<<csv_path, tier_path, risk_path, md_path>>[i]))]
       /\ UNCHANGED <<output_dir, evidence_manifest, download, dataVars, viewVars, sharedVars>>

\* The "Generate All Core Artifacts" button.
GenerateArtifacts ==
    LET csv_path   == PathJoin(output_dir, "model_inventory.csv")
        tier_path  == PathJoin(output_dir, "risk_tiering.json")
        risk_path  == PathJoin(output_dir, "lifecycle_risk_map.json")
        md_path    == PathJoin(output_dir, "case1_executive_summary.md")
        summary    == ExecutiveSummary(df_inventory, df_risk_tier, df_lifecycle_risk, now')
        f1 == WriteFile(fs.files, csv_path, export_dataframe_to_csv(df_inventory))
        f2 == WriteFile(f1, tier_path,
                  export_pydantic_list_to_json(
                      [i \in DOMAIN risk_tier_results |-> DumpResult(risk_tier_results[i])]))
        f3 == WriteFile(f2, risk_path,
                  export_pydantic_list_to_json(
                      [i \in DOMAIN lifecycle_risks |-> DumpRisk(lifecycle_risks[i])]))
        f4 == WriteFile(f3, md_path, MarkdownFile(summary))
    IN /\ Tick
       /\ generated_files' = <<csv_path, tier_path, risk_path, md_path>>
       /\ fs' = [dirs |-> TouchDirs(RenderedDirs, fs.files, Range(generated_files'), now'),
                 files |-> f4]
       /\ executive_summary_content' = summary
       /\ msgs' = [i \in 1..4 |-> Success("Generated: " \o BaseName(generated_files'[i]))]
       /\ UNCHANGED <<output_dir, evidence_manifest, download, dataVars, viewVars, sharedVars>>

\* Body of the manifest handler: hash every listed file, build the manifest,
\* write evidence_manifest.json and list it once.
WriteManifest ==
    LET evidence_artifacts_list ==
            [i \in DOMAIN generated_files |->
                EvidenceArtifact(BaseName(generated_files[i]), generated_files[i],
                                 calculate_sha256(fs.files, generated_files[i]))]
        manifest == EvidenceManifest(100 + now', now', "Sarah (AI Program Lead)",
                                     evidence_artifacts_list)
        evidence_manifest_json_path == ManifestPath(output_dir)
    IN /\ evidence_manifest' = manifest
       /\ fs' = [dirs |-> TouchDirs(RenderedDirs, fs.files,
                                     {evidence_manifest_json_path}, now'),
                 files |-> WriteFile(fs.files, evidence_manifest_json_path,
                               export_pydantic_list_to_json(DumpManifest(manifest)))]
       /\ generated_files' =
              IF evidence_manifest_json_path \in Range(generated_files)
              THEN generated_files
              ELSE Append(generated_files, evidence_manifest_json_path)
       /\ msgs' = <<Success("Generated: evidence_manifest.json")>>

GenerateManifest_unguarded ==
    /\ Tick
    /\ WriteManifest
    /\ UNCHANGED <<output_dir, executive_summary_content, download, dataVars, viewVars,
                 sharedVars>>

\* The "Generate Evidence Manifest" button.
GenerateManifest ==
    /\ Tick
    /\ IF generated_files # <<>>
       THEN IF Range(generated_files) \subseteq DOMAIN fs.files
            THEN WriteManifest
            ELSE \* open() in calculate_sha256 raises: the run ends there
                 /\ msgs' = <<Error("FileNotFoundError")>>
                 /\ fs' = [fs EXCEPT !.dirs = RenderedDirs]
                 /\ UNCHANGED <<generated_files, evidence_manifest>>
       ELSE /\ msgs' = <<Warning("Please generate core artifacts first.")>>
            /\ fs' = [fs EXCEPT !.dirs = RenderedDirs]
            /\ UNCHANGED <<generated_files, evidence_manifest>>
    /\ UNCHANGED <<output_dir, executive_summary_content, download, dataVars, viewVars,
                 sharedVars>>

\* shutil.make_archive(..., root_dir=source_dir): every file of the folder on
\* disk, by its name in the folder. The list of files passed in is only
\* printed: it plays no part in what is packed.
create_zip_archive(files, disk, source_dir) ==
    LET inside == {p \in DOMAIN disk : DirName(p) = source_dir}
    IN <<"zip", [n \in {BaseName(p) : p \in inside} |-> disk[PathJoin(source_dir, n)]]>>

\* shutil.rmtree of the export folder.
delete_export_folder(files, folder_path) ==
    [p \in {q \in DOMAIN files : DirName(q) # folder_path} |-> files[p]]

\* The "Create and Download ZIP Archive" button, shown while the list of
\* generated files is not empty.
CreateZip ==
    LET archive == create_zip_archive(generated_files, fs.files, output_dir)
    IN /\ generated_files # <<>>
       /\ Tick
       /\ download' = [file_name |-> BaseName(ZipPath), data |-> archive]
       /\ fs' = [dirs |-> RemoveDir(RenderedDirs, output_dir),
                 files |-> WriteFile(delete_export_folder(fs.files, output_dir),
                                     ZipPath, archive)]
       /\ output_dir' = generate_unique_output_dir(now')
       /\ generated_files' = <<>>
       /\ evidence_manifest' = None
       /\ msgs' = <<Success("Audit package 'audit_package_ai_governance.zip' created and ready for download!"),
                    Success("Export folder cleaned up successfully.")>>
       /\ UNCHANGED <<executive_summary_content, dataVars, viewVars, sharedVars>>

(***************************************************************************)
(* The two generation handlers when a write fails (disk full, permission   *)
(* denied): the exception ends the script run at that statement; neither   *)
(* handler catches it.                                                     *)
(***************************************************************************)
\* The four files of the artifacts handler in the order it writes them.
ArtifactWrites(t) ==
    << <<PathJoin(output_dir, "model_inventory.csv"),
         export_dataframe_to_csv(df_inventory)>>,
       <<PathJoin(output_dir, "risk_tiering.json"),
         export_pydantic_list_to_json(
             [i \in DOMAIN risk_tier_results |-> DumpResult(risk_tier_results[i])])>>,
       <<PathJoin(output_dir, "lifecycle_risk_map.json"),
         export_pydantic_list_to_json(
             [i \in DOMAIN lifecycle_risks |-> DumpRisk(lifecycle_risks[i])])>>,
       <<PathJoin(output_dir, "case1_executive_summary.md"),
         MarkdownFile(ExecutiveSummary(df_inventory, df_risk_tier, df_lifecycle_risk, t))>> >>

\* What a failed write leaves at the path: the file as it was (open failed) or
\* an empty file (open truncated it and the write failed).
FailedWrite(files, path, truncated) ==
    IF truncated THEN WriteFile(files, path, <<"empty">>) ELSE files

\* "Generate All Core Artifacts" when the write of the k-th file fails: the
\* list was emptied, the files before the k-th were written and listed.
GenerateArtifactsFails(k, truncated) ==
    LET writes == ArtifactWrites(now')
        done   == {writes[i][1] : i \in 1..(k - 1)}
        before == [p \in DOMAIN fs.files \cup done |->
                      IF \E i \in 1..(k - 1) : writes[i][1] = p
                      THEN (CHOOSE w \in Range(writes) : w[1] = p)[2]
                      ELSE fs.files[p]]
        after  == FailedWrite(before, writes[k][1], truncated)
    IN /\ Tick
       /\ generated_files' = [i \in 1..(k - 1) |-> writes[i][1]]
       /\ fs' = [dirs |-> TouchDirs(RenderedDirs, fs.files, DOMAIN after, now'),
                 files |-> after]
       /\ msgs' = [i \in 1..k |->
                      IF i < k THEN Success("Generated: " \o BaseName(writes[i][1]))
                      ELSE Error("OSError")]
       /\ UNCHANGED <<output_dir, evidence_manifest, executive_summary_content, download,
                      dataVars, viewVars, sharedVars>>

\* "Generate Evidence Manifest" when the write of evidence_manifest.json
\* fails: the manifest was already assigned to the session state, the path is
\* not yet listed.
GenerateManifestFails(truncated) ==
    LET evidence_artifacts_list ==
            [i \in DOMAIN generated_files |->
                EvidenceArtifact(BaseName(generated_files[i]), generated_files[i],
                                 calculate_sha256(fs.files, generated_files[i]))]
        manifest == EvidenceManifest(100 + now', now', "Sarah (AI Program Lead)",
                                     evidence_artifacts_list)
        after == FailedWrite(fs.files, ManifestPath(output_dir), truncated)
    IN /\ generated_files # <<>>
       /\ Range(generated_files) \subseteq DOMAIN fs.files
       /\ Tick
       /\ evidence_manifest' = manifest
       /\ fs' = [dirs |-> TouchDirs(RenderedDirs, fs.files, DOMAIN after, now'),
                 files |-> after]
       /\ msgs' = <<Error("OSError")>>
       /\ UNCHANGED <<output_dir, generated_files, executive_summary_content, download,
                      dataVars, viewVars, sharedVars>>

(***************************************************************************)
(* The ZIP handler step by step, as it runs when another script thread of  *)
(* the same server process can run between its file operations.            *)
(***************************************************************************)
\* create_zip_archive(...): the archive is written to the working directory
\* under a name that is the same for every session.
MakeArchive ==
    /\ pc = "ready"
    /\ generated_files # <<>>
    /\ Tick
    /\ fs' = [dirs |-> RenderedDirs,
              files |-> WriteFile(fs.files, ZipPath,
                            create_zip_archive(generated_files, fs.files, output_dir))]
    /\ pc' = "archived"
    /\ UNCHANGED <<exportVarsButDisk, msgs, peer, dataVars, viewVars>>

ResetRun_sameFolder ==
    /\ output_dir' = output_dir
    /\ generated_files' = <<>>
    /\ evidence_manifest' = None

\* "Reset the output directory for next generation".
ResetRun ==
    /\ output_dir' = generate_unique_output_dir(now')
    /\ generated_files' = <<>>
    /\ evidence_manifest' = None

\* The rest of the handler: read the archive back from its path, hand the
\* bytes to the download button, delete the export folder and, when
\* delete_export_folder returned True, reset the run.
ReadBackAndCleanUp ==
    /\ pc = "archived"
    /\ Tick
    /\ pc' = "ready"
    /\ IF ZipPath \in DOMAIN fs.files
       THEN /\ download' = [file_name |-> BaseName(ZipPath), data |-> fs.files[ZipPath]]
            /\ IF output_dir \in DOMAIN fs.dirs
               THEN /\ fs' = [dirs |-> RemoveDir(fs.dirs, output_dir),
                              files |-> delete_export_folder(fs.files, output_dir)]
                    /\ ResetRun
                    /\ msgs' = <<Success("Audit package 'audit_package_ai_governance.zip' created and ready for download!"),
                                 Success("Export folder cleaned up successfully.")>>
               ELSE /\ msgs' = <<Success("Audit package 'audit_package_ai_governance.zip' created and ready for download!")>>
                    /\ UNCHANGED <<fs, output_dir, generated_files, evidence_manifest>>
       ELSE /\ msgs' = <<Error("Failed to create ZIP archive.")>>
            /\ UNCHANGED <<fs, download, output_dir, generated_files, evidence_manifest>>
    /\ UNCHANGED <<executive_summary_content, peer, dataVars, viewVars>>

(***************************************************************************)
(* Other sessions of the same server process and the passing of time.     *)
(***************************************************************************)
\* The days argument of cleanup_old_export_folders at session start.
CleanupDays == 7

Days(n) == n * TicksPerDay

\* cleanup_old_export_folders at instant t: every folder under the base
\* directory last modified before the cutoff is removed with its files.
OldExportFolders(dirs, t) ==
    {d \in DOMAIN dirs : /\ Len(d) > 1
                         /\ d[1] = "output_artifacts"
                         /\ dirs[d] < t - Days(CleanupDays)}

cleanup_old_export_folders(disk, t) ==
    LET old == OldExportFolders(disk.dirs, t)
    IN [dirs  |-> [d \in DOMAIN disk.dirs \ old |-> disk.dirs[d]],
        files |-> [p \in {q \in DOMAIN disk.files : DirName(q) \notin old} |-> disk.files[p]]]

\* The session state of the running script that is its own.
SessionState ==
    [output_dir |-> output_dir, generated_files |-> generated_files,
     evidence_manifest |-> evidence_manifest,
     executive_summary_content |-> executive_summary_content,
     download |-> download, msgs |-> msgs, pc |-> pc]

\* A second browser session opens the app: its first script run cleans up old
\* export folders and initialises its session state. The first session's
\* script is left where it stands.
StartSession ==
    /\ peer = None
    /\ Tick
    /\ peer' = SessionState
    /\ fs' = cleanup_old_export_folders(fs, now')
    /\ output_dir' = generate_unique_output_dir(now')
    /\ generated_files' = <<>>
    /\ evidence_manifest' = None
    /\ executive_summary_content' = EmptyText
    /\ download' = None
    /\ msgs' = <<>>
    /\ pc' = "ready"
    /\ UNCHANGED <<dataVars, viewVars>>

\* The server runs the other session's script thread next.
SwitchSession ==
    /\ peer # None
    /\ peer' = SessionState
    /\ output_dir' = peer.output_dir
    /\ generated_files' = peer.generated_files
    /\ evidence_manifest' = peer.evidence_manifest
    /\ executive_summary_content' = peer.executive_summary_content
    /\ download' = peer.download
    /\ msgs' = peer.msgs
    /\ pc' = peer.pc
    /\ UNCHANGED <<fs, now, dataVars, viewVars>>

\* Days in which nobody touches the app (the browser tabs stay open).
IdleDays == 8

\* Handler runs since start-up, idle days left out.
Elapsed == IF now >= Days(IdleDays) THEN now - Days(IdleDays) ELSE now

IdleTime ==
    /\ now < Days(IdleDays)
    /\ pc = "ready"
    /\ peer # None => peer.pc = "ready"
    /\ now' = now + Days(IdleDays)
    /\ UNCHANGED <<exportVars, msgs, sharedVars, dataVars, viewVars>>

(***************************************************************************)
(* The selectboxes of the pages: what can be picked in the current state.  *)
(***************************************************************************)
SystemOptions == {UuidStr(x.system_id) : x \in Range(system_records)}
TierOptions == {UuidStr(r.system_id) : r \in Range(risk_tier_results)}
\* Of the risks offered, the model picks the first and the last of the list.
RiskOptions ==
    {UuidStr(lifecycle_risks[i].risk_id) : i \in DOMAIN lifecycle_risks \cap {1, Len(lifecycle_risks)}}

(***************************************************************************)
(* The session: any handler of the inventory, tiering and lifecycle pages. *)
(***************************************************************************)
\* The session is followed for MaxClock handler runs.
InSession == now < MaxClock

Next ==
    \/ InSession /\ \E form \in SystemForms : AddSystem(form)
    \/ InSession /\ \E id \in SystemOptions, form \in SystemForms : EditSystem(id, form)
    \/ InSession /\ \E id \in SystemOptions : DeleteSystem(id)
    \/ InSession /\ ComputeRiskTiers
    \/ InSession /\ \E id \in TierOptions, text \in JustificationInputs :
                        SaveJustification(id, text)
    \/ InSession /\ \E x \in Range(system_records), form \in RiskForms :
                        AddLifecycleRisk(x.system_id, form)
    \/ InSession /\ \E id \in RiskOptions, form \in RiskForms : EditLifecycleRisk(id, form)
    \/ InSession /\ \E id \in RiskOptions : DeleteLifecycleRisk(id)

Spec == Init /\ [][Next]_vars

(***************************************************************************)
(* The export pipeline: the three buttons of the Exports & Evidence page,  *)
(* between changes of the data they export.                                *)
(***************************************************************************)
\* The page is followed for MaxExportClock handler runs.
InExport == now < MaxExportClock

NextExport ==
    \/ InExport /\ GenerateArtifacts
    \/ InExport /\ GenerateManifest
    \/ InExport /\ CreateZip
    \/ InExport /\ ComputeRiskTiers
    \/ InExport /\ \E id \in SystemOptions : DeleteSystem(id)

SpecExport == Init /\ [][NextExport]_vars

(***************************************************************************)
(* Scoring on its own: an inventory of two valid records drawn over the     *)
(* enum attributes and dependency lists, then the tiering button.           *)
(***************************************************************************)
DependencyLists == { <<>>, <<"Credit Bureau API">>,
                     <<"Internal Reporting DB", "Document Management System API">> }

InitScore ==
    \E ai_type \in AIType, deployment_mode \in DeploymentMode,
       decision_criticality \in DecisionCriticality,
       automation_level \in AutomationLevel,
       data_sensitivity \in DataSensitivity, other_sensitivity \in DataSensitivity,
       deps \in {d \in DependencyLists : Len(d) <= 1}, other_deps \in DependencyLists :
        InitSession(
            << SystemRecord(1, "ML-based Credit Underwriting Model",
                   "Automates credit assessment for loan applications.",
                   "Retail Banking", ai_type, "Head of Lending Products",
                   deployment_mode, decision_criticality, automation_level,
                   data_sensitivity, deps, 0),
               SystemRecord(2, "Fraud Bot", "Flags suspicious card payments.",
                   "Payments", ai_type, "Risk Lead",
                   deployment_mode, decision_criticality, automation_level,
                   other_sensitivity, other_deps, 0) >>,
            <<>>)

NextScore ==
    \/ risk_tier_results = <<>> /\ ComputeRiskTiers

SpecScore == InitScore /\ [][NextScore]_vars

\* Handler runs explored when two sessions share the server's disk.
MaxSharedClock == 8

\* Two users of the same server each work through the Exports & Evidence page
\* in the order it presents its buttons: artifacts, manifest, package.
InShared == Elapsed < MaxSharedClock

NextShared ==
    \/ InShared /\ pc = "ready" /\ generated_files = <<>> /\ GenerateArtifacts
    \/ InShared /\ pc = "ready" /\ generated_files # <<>> /\ evidence_manifest = None
                /\ GenerateManifest
    \/ InShared /\ evidence_manifest # None /\ MakeArchive
    \/ InShared /\ ReadBackAndCleanUp
    \/ InShared /\ StartSession
    \/ SwitchSession
    \/ IdleTime

SpecShared == Init /\ [][NextShared]_vars

\* Handler runs explored on a disk whose writes can fail.
MaxFaultyClock == 3

InFaulty == now < MaxFaultyClock

\* The Exports & Evidence page on a disk whose writes can fail.
NextFaulty ==
    \/ InFaulty /\ GenerateArtifacts
    \/ InFaulty /\ GenerateManifest
    \/ InFaulty /\ CreateZip
    \/ InFaulty /\ \E k \in 1..4, truncated \in BOOLEAN : GenerateArtifactsFails(k, truncated)
    \/ InFaulty /\ \E truncated \in BOOLEAN : GenerateManifestFails(truncated)

SpecFaulty == Init /\ [][NextFaulty]_vars

\* Submissions of the two add forms that validation has to turn down: a valid
\* submission with one field changed.
ValidSystemForm ==
    [name |-> "fraud bot", description |-> "Flags suspicious card payments.",
     domain |-> "Payments", owner_role |-> "Risk Lead", ai_type |-> "ML",
     deployment_mode |-> "INTERNAL_ONLY", decision_criticality |-> "LOW",
     automation_level |-> "ADVISORY", data_sensitivity |-> "PUBLIC",
     external_dependencies |-> <<>>]

RejectedSystemForms ==
    { [ValidSystemForm EXCEPT !.name = "   "],
      [ValidSystemForm EXCEPT !.name = "AI"],
      [ValidSystemForm EXCEPT !.name = LongText],
      [ValidSystemForm EXCEPT !.name = "ML-BASED CREDIT UNDERWRITING MODEL"],
      [ValidSystemForm EXCEPT !.description = "Too short"],
      [ValidSystemForm EXCEPT !.owner_role = ""] }

ValidRiskForm ==
    [lifecycle_phase |-> "MONITORING", risk_category |-> "PERFORMANCE_ROBUSTNESS",
     risk_statement |-> "Model drifts after a schema change.",
     impact |-> 5, likelihood |-> 5,
     mitigation |-> "Pin the schema and alert on drift.",
     owner_role |-> "Risk Lead",
     evidence_links_input |-> "https://example.com/doc1"]

\* The last two carry values the sliders do not offer (a client that does not
\* go through the widget): they reach the validation of LifecycleRisk itself.
RejectedRiskForms ==
    { [ValidRiskForm EXCEPT !.risk_statement = ""],
      [ValidRiskForm EXCEPT !.risk_statement = "Too short"],
      [ValidRiskForm EXCEPT !.mitigation = LongText],
      [ValidRiskForm EXCEPT !.evidence_links_input = "https://example.com/doc1, not a url"],
      [ValidRiskForm EXCEPT !.impact = 6],
      [ValidRiskForm EXCEPT !.likelihood = 0] }

\* Handler runs explored on the two add forms.
MaxFormClock == 2

InForms == now < MaxFormClock

\* A session that computes the tiers and submits the add forms, the risk form
\* for the first system offered.
NextForms ==
    \/ InForms /\ risk_tier_results = <<>> /\ ComputeRiskTiers
    \/ InForms /\ \E form \in {ValidSystemForm} \cup RejectedSystemForms : AddSystem(form)
    \/ InForms /\ \E form \in {ValidRiskForm} \cup RejectedRiskForms :
                      AddLifecycleRisk(system_records[1].system_id, form)

SpecForms == Init /\ [][NextForms]_vars

(***************************************************************************)
(* The narrative report: the tiers computed once, justifications of        *)
(* lengths around the width of their table column saved, one risk with a   *)
(* statement around the width of its column added, and the export.         *)
(***************************************************************************)
\* Justifications of 49 and 50 characters.
ReportJustifications ==
    { <<"Signed off by the risk committee after the review">>,
      <<"Signed off by the risk committee after its reviews">> }

\* Risks of the highest severity with statements of 67 and 68 characters.
ReportRiskForms ==
    { [ValidRiskForm EXCEPT !.risk_statement = statement] :
        statement \in
          { "Scores shift when the upstream feed changes its schema unannounced.",
            "Scores shift when the upstream feeds change their schema unannounced" } }

\* Handler runs explored before and with the export of the report.
MaxReportClock == 4

InReport == now < MaxReportClock

NextReport ==
    \/ InReport /\ risk_tier_results = <<>> /\ ComputeRiskTiers
    \/ InReport /\ risk_tier_results # <<>> /\ \E text \in ReportJustifications :
                      SaveJustification(UuidStr(risk_tier_results[1].system_id), text)
    \/ InReport /\ lifecycle_risks = sort_by_severity(seed_lifecycle_risks)
                /\ \E form \in ReportRiskForms :
                      AddLifecycleRisk(system_records[1].system_id, form)
    \/ InReport /\ GenerateArtifacts

SpecReport == Init /\ [][NextReport]_vars

(***************************************************************************)
(* The lifecycle risks on their own: adds, edits and deletions over the    *)
(* values of impact and likelihood.                                        *)
(***************************************************************************)
\* The add form, also with values the record type refuses (the sliders offer
\* 1..5; the other two exercise the validation of LifecycleRisk).
RatedAddForms ==
    { ValidRiskForm,
      [ValidRiskForm EXCEPT !.impact = 1, !.likelihood = 1],
      [ValidRiskForm EXCEPT !.impact = 6],
      [ValidRiskForm EXCEPT !.likelihood = 0] }

\* The edit form: st.slider("Impact (1-5)", 1, 5, ...) and
\* st.slider("Likelihood (1-5)", 1, 5, ...) at the ends and the middle.
RatedEditForms ==
    { [ValidRiskForm EXCEPT !.impact = impact, !.likelihood = likelihood] :
        impact \in {1, 3, 5}, likelihood \in {1, 5} }

\* Handler runs explored on the lifecycle risks.
MaxRiskClock == 2

InRisks == now < MaxRiskClock

NextRisks ==
    \/ InRisks /\ \E form \in RatedAddForms :
                      AddLifecycleRisk(system_records[1].system_id, form)
    \/ InRisks /\ \E id \in RiskOptions, form \in RatedEditForms :
                      EditLifecycleRisk(id, form)
    \/ InRisks /\ \E id \in RiskOptions : DeleteLifecycleRisk(id)

SpecRisks == Init /\ [][NextRisks]_vars

\* A file of len bytes, all 0 but for a 1 at position pos (none for pos = 0).
ByteFile(len, pos) == [i \in 1..len |-> IF i = pos THEN 1 ELSE 0]

\* Largest number of whole read blocks in the files hashed.
MaxBlocks == 2

\* The byte contents the hashing is examined on: empty, one byte, and files
\* ending just before, at and after a block boundary, with a byte set at the
\* start, around the first boundary or at the end.
HashedContents ==
    {ByteFile(len, pos) :
        len \in {0, 1, ReadSize - 1, ReadSize, ReadSize + 1, MaxBlocks * ReadSize + 1},
        pos \in {0, 1, ReadSize, ReadSize + 1, MaxBlocks * ReadSize + 1}}

HashedPaths ==
    <<PathJoin(generate_unique_output_dir(0), "model_inventory.csv"),
      PathJoin(generate_unique_output_dir(0), "risk_tiering.json")>>

\* A session whose export folder holds two listed files of given bytes.
InitHash ==
    \E first \in HashedContents, second \in HashedContents :
        /\ system_records = ai_systems_data
        /\ risk_tier_results = <<>>
        /\ lifecycle_risks = <<>>
        /\ df_inventory = InventoryRows(ai_systems_data)
        /\ system_id_map = IdMapOf(ai_systems_data)
        /\ df_risk_tier = <<>>
        /\ df_lifecycle_risk = <<>>
        /\ output_dir = generate_unique_output_dir(0)
        /\ generated_files = HashedPaths
        /\ evidence_manifest = None
        /\ executive_summary_content = EmptyText
        /\ fs = [dirs  |-> MakeDirs(ImportDirs, generate_unique_output_dir(0), 0),
                 files |-> WriteFile(WriteFile(ImportFiles, HashedPaths[1], first),
                                     HashedPaths[2], second)]
        /\ download = None
        /\ msgs = <<>>
        /\ now = 0
        /\ pc = "ready"
        /\ peer = None

\* Manifest runs explored over the hashed files.
MaxHashClock == 2

NextHash ==
    \/ now < MaxHashClock /\ GenerateManifest

SpecHash == InitHash /\ [][NextHash]_vars

(***************************************************************************)
(* Properties of the scoring.                                              *)
(***************************************************************************)
\* The rubric as documented, written out independently of SCORING_RUBRIC.
DocumentedScore ==
    [LOW |-> 1, MEDIUM |-> 3, HIGH |-> 5,
     PUBLIC |-> 1, INTERNAL |-> 2, CONFIDENTIAL |-> 4, REGULATED_PII |-> 5,
     ADVISORY |-> 1, HUMAN_APPROVAL |-> 3, FULLY_AUTOMATED |-> 5,
     ML |-> 3, LLM |-> 4, AGENT |-> 5,
     INTERNAL_ONLY |-> 1, BATCH |-> 2, HUMAN_IN_LOOP |-> 3, REAL_TIME |-> 4]

DocumentedTotal(system) ==
    DocumentedScore[system.decision_criticality]
    + DocumentedScore[system.data_sensitivity]
    + DocumentedScore[system.automation_level]
    + DocumentedScore[system.ai_type]
    + DocumentedScore[system.deployment_mode]
    + (IF Len(system.external_dependencies) > 0 THEN 2 ELSE 0)

\* The system a tier result was computed for.
SystemOf(result) ==
    CHOOSE x \in Range(system_records) : x.system_id = result.system_id

\* C1: every result of calculate_risk_tier carries a total_score equal to the
\* sum of the six dimension scores of its system: the five attribute scores of
\* the fixed rubric plus 2 for a non-empty dependency list, 0 for an empty one.
C1_TotalIsSumOfSixScores ==
    \A r \in Range(risk_tier_results) :
        /\ \E x \in Range(system_records) : x.system_id = r.system_id
        /\ r.score_breakdown["total_score"] = DocumentedTotal(SystemOf(r))
        /\ r.score_breakdown["total_score"] =
               r.score_breakdown["decision_criticality_score"]
               + r.score_breakdown["data_sensitivity_score"]
               + r.score_breakdown["automation_level_score"]
               + r.score_breakdown["ai_type_score"]
               + r.score_breakdown["deployment_mode_score"]
               + r.score_breakdown["external_dependencies_score"]

\* C1 witness: tiers were computed for a system with two dependencies (scored
\* 2, not 4) next to one with none, reaching the largest total of the rubric.
C1_Witness ==
    /\ Len(risk_tier_results) = 2
    /\ risk_tier_results[1].score_breakdown["total_score"] = 24
    /\ risk_tier_results[1].score_breakdown["external_dependencies_score"] = 0
    /\ risk_tier_results[2].score_breakdown["total_score"] = 26
    /\ Len(system_records[2].external_dependencies) = 2

\* The tier the documented rule gives a total score.
DocumentedTiers(total_score) ==
    (IF total_score >= 22 THEN {"TIER_1"} ELSE {})
    \cup (IF 15 <= total_score /\ total_score <= 21 THEN {"TIER_2"} ELSE {})
    \cup (IF total_score <= 14 THEN {"TIER_3"} ELSE {})

\* C2: for every total score from 0 up exactly one tier applies under the cut
\* points 22 and 15, the code's rule assigns that tier, and every computed
\* result stores the tier the rule gives its total_score.
C2_TierRuleExhaustiveAndExclusive ==
    /\ \A total_score \in 0..MaxTotal :
           DocumentedTiers(total_score) = {TierOf(total_score)}
    /\ \A r \in Range(risk_tier_results) :
           DocumentedTiers(r.score_breakdown["total_score"]) = {r.risk_tier}

\* C2 witness: results were computed on both sides of the upper cut point.
C2_Witness ==
    /\ Len(risk_tier_results) = 2
    /\ risk_tier_results[1].score_breakdown["total_score"] = 22
    /\ risk_tier_results[1].risk_tier = "TIER_1"
    /\ risk_tier_results[2].score_breakdown["total_score"] = 21
    /\ risk_tier_results[2].risk_tier = "TIER_2"

SameScoringAttributes(x, y) ==
    /\ x.decision_criticality = y.decision_criticality
    /\ x.data_sensitivity = y.data_sensitivity
    /\ x.automation_level = y.automation_level
    /\ x.ai_type = y.ai_type
    /\ x.deployment_mode = y.deployment_mode
    /\ (x.external_dependencies = <<>>) <=> (y.external_dependencies = <<>>)

\* C3: two systems that agree on the five scoring enums and on whether they
\* have dependencies get the same score breakdown, tier and required controls,
\* whatever their names, descriptions, domains, owners, identifiers or times.
C3_ScoringDependsOnlyOnSixAttributes ==
    \A r1 \in Range(risk_tier_results), r2 \in Range(risk_tier_results) :
        SameScoringAttributes(SystemOf(r1), SystemOf(r2)) =>
            /\ r1.score_breakdown = r2.score_breakdown
            /\ r1.risk_tier = r2.risk_tier
            /\ r1.required_controls = r2.required_controls

\* C3 witness: two computed systems agree on the six attributes and differ in
\* everything else, including the dependency list itself.
C3_Witness ==
    /\ Len(risk_tier_results) = 2
    /\ SameScoringAttributes(system_records[1], system_records[2])
    /\ system_records[1].name # system_records[2].name
    /\ system_records[1].system_id # system_records[2].system_id
    /\ Len(system_records[1].external_dependencies) = 1
    /\ Len(system_records[2].external_dependencies) = 2
    /\ risk_tier_results[1].score_breakdown = risk_tier_results[2].score_breakdown

(***************************************************************************)
(* Properties of the session's collections.                                *)
(***************************************************************************)
\* C4: in every reachable state every lifecycle risk of the session has
\* severity = impact * likelihood, after construction (whatever severity was
\* passed in) and after an edit that changes impact or likelihood.
C4_SeverityIsImpactTimesLikelihood ==
    \A lr \in Range(lifecycle_risks) : lr.severity = lr.impact * lr.likelihood

\* C4 witness: the seeded risk 11 (built with severity 0 passed in, impact 5,
\* likelihood 4, hence severity 20) has been edited to impact 5, likelihood 5.
C4_Witness ==
    /\ msgs = <<Success("Lifecycle risk updated successfully!")>>
    /\ \E lr \in Range(lifecycle_risks) :
           /\ lr.risk_id = 11
           /\ lr.impact = 5 /\ lr.likelihood = 5
           /\ lr.severity = 25

\* The positions of a list that do not reference the system with this id.
Survivors(seq, id) == {i \in DOMAIN seq : UuidStr(seq[i].system_id) # id}

\* new is old without the entries of system id: the survivors, each unchanged,
\* in their previous relative order.
OnlySystemRemoved(old, new, id) ==
    /\ Len(new) = Cardinality(Survivors(old, id))
    /\ \A i \in Survivors(old, id) :
           new[Cardinality({j \in Survivors(old, id) : j <= i})] = old[i]

\* C5: a delete-system step removes the system, its tier results and its
\* lifecycle risks, and leaves every other system, result and risk in place,
\* unchanged and in the same relative order.
C5_DeleteRemovesExactlyTheSystem ==
    [][\A id \in SystemOptions :
          DeleteSystem(id) =>
              /\ OnlySystemRemoved(system_records, system_records', id)
              /\ OnlySystemRemoved(risk_tier_results, risk_tier_results', id)
              /\ OnlySystemRemoved(lifecycle_risks, lifecycle_risks', id)
              /\ Survivors(system_records', id) = DOMAIN system_records'
              /\ Survivors(risk_tier_results', id) = DOMAIN risk_tier_results'
              /\ Survivors(lifecycle_risks', id) = DOMAIN lifecycle_risks']_vars

\* C5 witness: the first seeded system was deleted after tiers were computed;
\* the two other systems' results and five risks remain.
C5_Witness ==
    /\ msgs = <<Success("AI System 'ML-based Credit Underwriting Model' and its associated risks deleted successfully!")>>
    /\ [i \in DOMAIN system_records |-> system_records[i].system_id] = <<2, 3>>
    /\ [i \in DOMAIN risk_tier_results |-> risk_tier_results[i].system_id] = <<2, 3>>
    /\ [i \in DOMAIN lifecycle_risks |-> lifecycle_risks[i].risk_id] = <<16, 15, 17, 18, 19>>

InventoryIds == {x.system_id : x \in Range(system_records)}

\* C6: in every reachable state every tier result and every lifecycle risk
\* references a system that is in the inventory.
C6_NoOrphanedReference ==
    /\ \A r \in Range(risk_tier_results) : r.system_id \in InventoryIds
    /\ \A lr \in Range(lifecycle_risks) : lr.system_id \in InventoryIds

\* C6 witness: a risk was added to the third seeded system and the second
\* system was then deleted with its three risks; the seven risks that remain
\* belong to the two systems left.
C6_Witness ==
    /\ msgs = <<Success("AI System 'LLM-based Customer Support Assistant' and its associated risks deleted successfully!")>>
    /\ InventoryIds = {1, 3}
    /\ Len(lifecycle_risks) = 7
    /\ \E lr \in Range(lifecycle_risks) : lr.risk_id = 101 /\ lr.system_id = 3

\* C7 (as claimed): the displayed lifecycle-risk table is the stable descending
\* sort of the session's risks: non-increasing severity, ties in list order.
C7_TableSortIsStable ==
    df_lifecycle_risk = StableSortDesc(LifecycleRows(system_records, lifecycle_risks))

C9_ManifestWithoutArtifactsIsReportedNoOp ==
    [][(generated_files = <<>> /\ GenerateManifest) =>
          /\ evidence_manifest' = evidence_manifest
          /\ fs'.files = fs.files
          /\ generated_files' = <<>>
          /\ msgs' = <<Warning("Please generate core artifacts first.")>>]_vars

\* C9 witness: the button was pressed with nothing generated; the warning is
\* shown, there is no manifest in the session and none in the export folder.
C9_Witness ==
    /\ msgs = <<Warning("Please generate core artifacts first.")>>
    /\ generated_files = <<>>
    /\ evidence_manifest = None
    /\ ManifestPath(output_dir) \notin DOMAIN fs.files
    /\ output_dir \in DOMAIN fs.dirs

\* C10 (as claimed): a package is only created when the manifest of the
\* current export folder is in the list of generated files.
C10_PackageOnlyAfterManifest ==
    [][CreateZip => ManifestPath(output_dir) \in Range(generated_files)]_vars

(***************************************************************************)
(* Properties of packaging.                                                *)
(***************************************************************************)
\* The listed files that are not on disk.
MissingListedFiles == {p \in Range(generated_files) : p \notin DOMAIN fs.files}

\* C11: packaging fails and produces no archive if any listed file is missing
\* at pack time: a packaging step taken while a file of the generated-files
\* list is not on disk writes no archive and leaves the handler without one.
C11_PackagingFailsWhenListedFileMissing ==
    [][(MakeArchive /\ MissingListedFiles # {})
          => (fs'.files = fs.files /\ pc' = "ready")]_vars

\* The member names of an archive.
ArchiveNames(archive) == DOMAIN archive[2]

\* C12: the archive contains exactly the files named in the list passed to
\* packaging (the current generated-files list), each under its base name and
\* with its bytes, and no other file of the export folder; a manifest file
\* left on disk by an earlier manifest run is not packed once the artifacts
\* were regenerated and the list no longer names it.
C12_ArchiveHoldsExactlyTheListedFiles ==
    [][CreateZip =>
          /\ ArchiveNames(download'.data) = {BaseName(p) : p \in Range(generated_files)}
          /\ \A p \in Range(generated_files) :
                 download'.data[2][BaseName(p)] = fs.files[p]]_vars

\* The manifest's entries for the core artifacts (its entry for its own file,
\* if it has one, is left out).
ArtifactEntries ==
    {a \in Range(evidence_manifest.artifacts) : a.path # ManifestPath(output_dir)}

\* C13: in every state with a manifest, each artifact's digest in it is the
\* hash of the bytes that file has on disk now.
C13_ManifestDigestsAreCurrent ==
    evidence_manifest # None =>
        \A a \in ArtifactEntries :
            /\ a.path \in DOMAIN fs.files
            /\ a.sha256 = calculate_sha256(fs.files, a.path)

(***************************************************************************)
(* Properties of the run context.                                          *)
(***************************************************************************)
\* delete_export_folder returns True: the folder was there and was removed.
ExportFolderDeleted == output_dir \in DOMAIN fs.dirs /\ output_dir \notin DOMAIN fs'.dirs

\* Every path the session lists or holds in its manifest lies in its current
\* output directory.
PathsOfCurrentRun ==
    /\ \A p \in Range(generated_files) : DirName(p) = output_dir
    /\ evidence_manifest # None =>
           \A a \in Range(evidence_manifest.artifacts) : DirName(a.path) = output_dir

\* C14 as stated: whenever a package has been created and handed to the
\* download button, the run context is EMPTY again: no listed files, no
\* manifest, another output directory.
C14_PackagedAlwaysResets ==
    [][(ReadBackAndCleanUp /\ download' # None)
          => /\ generated_files' = <<>>
             /\ evidence_manifest' = None
             /\ output_dir' # output_dir]_vars

\* C14, amended: a package hand-off whose export folder was deleted resets the
\* run context (no listed files, no manifest, an output directory that is
\* neither the packaged run's nor any directory on disk nor the other
\* session's); a hand-off whose folder could not be deleted leaves list,
\* manifest and directory as they were; and at all times the listed paths and
\* the manifest's paths lie in the current output directory.
C14_ResetWhenExportFolderDeleted ==
    [][/\ (ReadBackAndCleanUp /\ download' # None) =>
              IF ExportFolderDeleted
              THEN /\ generated_files' = <<>>
                   /\ evidence_manifest' = None
                   /\ output_dir' # output_dir
                   /\ output_dir' \notin DOMAIN fs.dirs
                   /\ peer # None => output_dir' # peer.output_dir
              ELSE UNCHANGED <<generated_files, evidence_manifest, output_dir>>
       /\ PathsOfCurrentRun']_vars

\* C14 witness: a session that packaged a run with its manifest has been
\* reset: it holds the download, an empty list, no manifest and a directory
\* that is not the one it started with.
C14_Witness ==
    /\ download # None
    /\ ArchiveNames(download.data) # {}
    /\ pc = "ready"
    /\ generated_files = <<>>
    /\ evidence_manifest = None
    /\ output_dir \notin DOMAIN fs.dirs
    /\ msgs[Len(msgs)] = Success("Export folder cleaned up successfully.")

\* C15: two sessions each generate artifacts, generate the manifest and
\* package; under every interleaving of their steps, the archive a session
\* reads back for download is the archive of its own output directory (the
\* directory still being on disk, its files are those the session packed).
C15_SessionReadsBackItsOwnArchive ==
    [][(ReadBackAndCleanUp /\ download' # None /\ output_dir \in DOMAIN fs.dirs)
          => download'.data = create_zip_archive(generated_files, fs.files, output_dir)]_vars

(***************************************************************************)
(* Properties of tiering results.                                          *)
(***************************************************************************)
\* The worked example: HIGH, REGULATED_PII, FULLY_AUTOMATED, ML,
\* INTERNAL_ONLY, no external dependencies.
IsWorkedExample(system) ==
    /\ system.decision_criticality = "HIGH"
    /\ system.data_sensitivity = "REGULATED_PII"
    /\ system.automation_level = "FULLY_AUTOMATED"
    /\ system.ai_type = "ML"
    /\ system.deployment_mode = "INTERNAL_ONLY"
    /\ system.external_dependencies = <<>>

\* C16 as stated: the worked example scores total_score = 18 and is TIER_2.
C16_ExampleScores18 ==
    \A r \in Range(risk_tier_results) :
        IsWorkedExample(SystemOf(r)) =>
            /\ r.score_breakdown["total_score"] = 18
            /\ r.risk_tier = "TIER_2"

\* C16, amended: the worked example scores total_score = 19 (5 + 5 + 5 + 3 + 1
\* + 0) and is TIER_2.
C16_ExampleScores19 ==
    \A r \in Range(risk_tier_results) :
        IsWorkedExample(SystemOf(r)) =>
            /\ r.score_breakdown["total_score"] = 19
            /\ r.risk_tier = "TIER_2"

\* C16 witness: tiers were computed for an inventory whose first system is the
\* worked example.
C16_Witness ==
    /\ risk_tier_results # <<>>
    /\ IsWorkedExample(system_records[1])
    /\ risk_tier_results[1].system_id = system_records[1].system_id
    /\ risk_tier_results[1].score_breakdown["ai_type_score"] = 3
    /\ risk_tier_results[1].score_breakdown["total_score"] = 19

\* A result's fields other than its justification.
ResultButJustification(r) ==
    <<r.system_id, r.risk_tier, r.score_breakdown, r.required_controls>>

\* C17: saving a new justification for a tier result sets that result's
\* justification to the new text, leaves its tier, score breakdown, required
\* controls and system reference as they were, and leaves every other tier
\* result, every system and every lifecycle risk unchanged.
C17_SaveJustificationChangesOnlyThatText ==
    [][\A sid \in TierOptions, text \in JustificationInputs :
          SaveJustification(sid, text) =>
              /\ Len(risk_tier_results') = Len(risk_tier_results)
              /\ \E i \in DOMAIN risk_tier_results :
                     /\ UuidStr(risk_tier_results[i].system_id) = sid
                     /\ risk_tier_results'[i].justification = text
                     /\ ResultButJustification(risk_tier_results'[i])
                            = ResultButJustification(risk_tier_results[i])
                     /\ \A j \in DOMAIN risk_tier_results \ {i} :
                            risk_tier_results'[j] = risk_tier_results[j]
              /\ system_records' = system_records
              /\ lifecycle_risks' = lifecycle_risks]_vars

\* C17 witness: one result carries the text that was saved while another
\* still carries the justification the computation wrote.
C17_Witness ==
    /\ msgs = <<Success("Justification updated successfully!")>>
    /\ \E i, j \in DOMAIN risk_tier_results :
           /\ risk_tier_results[i].justification \in JustificationInputs
           /\ risk_tier_results[j].justification \notin JustificationInputs
           /\ risk_tier_results[i].required_controls = REQUIRED_CONTROLS(risk_tier_results[i].risk_tier)

\* The control lists as documented, tier by tier.
DocumentedControls ==
    [TIER_1 |-> <<"Independent validation", "Full documentation pack",
                  "Robustness & security testing",
                  "Bias & interpretability assessment", "Monitoring dashboards",
                  "Formal change control & rollback", "Incident response plan">>,
     TIER_2 |-> <<"Peer validation", "Standard documentation",
                  "Basic robustness & security tests", "Periodic monitoring">>,
     TIER_3 |-> <<"Basic documentation", "Basic testing", "Periodic review">>]

\* C18: every result of calculate_risk_tier carries exactly the control list
\* of its tier, in the documented order; the list of TIER_1 is longer than
\* that of TIER_2, which is longer than that of TIER_3; and with results
\* produced the lists are still the documented ones.
C18_ControlsAreTheTiersFixedList ==
    /\ \A r \in Range(risk_tier_results) :
           /\ r.risk_tier \in RiskTier
           /\ r.required_controls = DocumentedControls[r.risk_tier]
    /\ Len(REQUIRED_CONTROLS("TIER_1")) > Len(REQUIRED_CONTROLS("TIER_2"))
    /\ Len(REQUIRED_CONTROLS("TIER_2")) > Len(REQUIRED_CONTROLS("TIER_3"))
    /\ \A tier \in RiskTier : REQUIRED_CONTROLS(tier) = DocumentedControls[tier]

\* C18 witness: results of two different tiers were produced, one with the
\* four controls of TIER_2 and one with the three of TIER_3.
C18_Witness ==
    /\ Len(risk_tier_results) = 2
    /\ risk_tier_results[1].risk_tier = "TIER_3"
    /\ Len(risk_tier_results[1].required_controls) = 3
    /\ risk_tier_results[2].risk_tier = "TIER_2"
    /\ risk_tier_results[2].required_controls[1] = "Peer validation"

(***************************************************************************)
(* Properties of form validation.                                          *)
(***************************************************************************)
\* A required text that is missing, too short or too long.
BadText(value, min, max) ==
    \/ Strip(value) = ""
    \/ StrLen(Strip(value)) < min
    \/ StrLen(Strip(value)) > max

\* The submissions of the add-system form that validation rejects.
SystemIsRejected(form) ==
    \/ BadText(form.name, 3, 200)
    \/ BadText(form.description, 10, 1000)
    \/ BadText(form.domain, 2, 100)
    \/ BadText(form.owner_role, 2, 100)
    \/ \E x \in Range(system_records) : Lower(x.name) = Lower(Strip(form.name))

\* The submissions of the add-risk form that validation rejects.
RiskIsRejected(form) ==
    \/ BadText(form.risk_statement, 10, 1000)
    \/ BadText(form.mitigation, 10, 1000)
    \/ BadText(form.owner_role, 2, 100)
    \/ \E i \in DOMAIN ParseLinks(form.evidence_links_input) :
           ~UrlMatches(ParseLinks(form.evidence_links_input)[i])
    \/ form.impact \notin 1..5
    \/ form.likelihood \notin 1..5

\* Every message of the run is an error message.
OnlyErrorsShown == msgs' # <<>> /\ \A i \in DOMAIN msgs' : msgs'[i][1] = "error"

\* C19: an add of a system or of a lifecycle risk that validation rejects
\* (required text missing, too short or too long, duplicate system name,
\* malformed evidence URL, impact or likelihood outside 1..5) creates no
\* record: systems, tier results and lifecycle risks are unchanged and the
\* run shows errors only.
C19_RejectedAddChangesNothing ==
    [][/\ \A form \in {ValidSystemForm} \cup RejectedSystemForms :
              (AddSystem(form) /\ SystemIsRejected(form))
                  => (UNCHANGED dataVars /\ OnlyErrorsShown)
       /\ \A form \in {ValidRiskForm} \cup RejectedRiskForms :
              (AddLifecycleRisk(system_records[1].system_id, form) /\ RiskIsRejected(form))
                  => (UNCHANGED dataVars /\ OnlyErrorsShown)]_vars

\* C19 witness: with tier results computed, an add was turned down for a
\* malformed evidence URL and the collections are those of the start.
C19_Witness ==
    /\ msgs = Errors(<<"Invalid URL format: not a url">>)
    /\ Len(risk_tier_results) = 3
    /\ Len(system_records) = 3
    /\ lifecycle_risks = sort_by_severity(seed_lifecycle_risks)

(***************************************************************************)
(* Properties of generation under failing writes.                          *)
(***************************************************************************)
\* A run of one of the two generation handlers that ended in a failed write.
GenerationFailed ==
    \/ \E k \in 1..4, truncated \in BOOLEAN : GenerateArtifactsFails(k, truncated)
    \/ \E truncated \in BOOLEAN : GenerateManifestFails(truncated)

\* C20: artifact and manifest generation are all-or-nothing under an I/O
\* failure part-way: after a failed run the generated-files list and the
\* manifest are exactly as they were before the run.
C20_FailedGenerationLeavesRunAsBefore ==
    [][GenerationFailed => UNCHANGED <<generated_files, evidence_manifest>>]_vars

(***************************************************************************)
(* Properties of hashing.                                                  *)
(***************************************************************************)
\* The manifest's digest for a listed path.
DigestOf(manifest, path) ==
    (CHOOSE a \in Range(manifest.artifacts) : a.path = path).sha256

\* C21: calculate_sha256 is deterministic and sensitive and does not depend
\* on the split into read blocks: a file hashed again with its bytes
\* unchanged gets the same digest, two files get the same digest exactly when
\* their bytes are equal, and every digest is that of the whole content taken
\* as one message.
C21_DigestIsAFunctionOfAllBytes ==
    [][evidence_manifest' # None =>
          /\ \A p \in Range(HashedPaths) :
                 /\ DigestOf(evidence_manifest', p) = HexDigest(fs'.files[p])
                 /\ (evidence_manifest # None /\ fs'.files[p] = fs.files[p])
                        => DigestOf(evidence_manifest', p) = DigestOf(evidence_manifest, p)
          /\ (DigestOf(evidence_manifest', HashedPaths[1])
                  = DigestOf(evidence_manifest', HashedPaths[2]))
             <=> (fs'.files[HashedPaths[1]] = fs'.files[HashedPaths[2]])]_vars

\* C21 witness: two files of more than two blocks that differ in their last
\* byte only were hashed twice and have different digests.
C21_Witness ==
    /\ evidence_manifest # None
    /\ now = 2
    /\ Len(fs.files[HashedPaths[1]]) = MaxBlocks * ReadSize + 1
    /\ Len(fs.files[HashedPaths[2]]) = MaxBlocks * ReadSize + 1
    /\ fs.files[HashedPaths[1]] # fs.files[HashedPaths[2]]
    /\ SubSeq(fs.files[HashedPaths[1]], 1, MaxBlocks * ReadSize)
           = SubSeq(fs.files[HashedPaths[2]], 1, MaxBlocks * ReadSize)
    /\ DigestOf(evidence_manifest, HashedPaths[1]) # DigestOf(evidence_manifest, HashedPaths[2])

C23_RecomputeReplacesResults ==
    [][(ComputeRiskTiers /\ system_records # <<>>) =>
          /\ Len(risk_tier_results') = Len(system_records')
          /\ system_records' = system_records
          /\ \A i \in DOMAIN risk_tier_results' :
                /\ risk_tier_results'[i].system_id = system_records'[i].system_id
                /\ risk_tier_results'[i].computed_at = now'
          /\ \A i \in DOMAIN risk_tier_results' :
                \A j \in DOMAIN risk_tier_results : 
                    risk_tier_results'[i] # risk_tier_results[j]]_vars

\* A second computation, after the inventory lost or gained a system.
C23_Witness ==
    /\ risk_tier_results # <<>>
    /\ Len(risk_tier_results) = Len(system_records)
    /\ Len(system_records) # Len(ai_systems_data)
    /\ \A i \in DOMAIN risk_tier_results : risk_tier_results[i].computed_at >= 3
    /\ msgs = <<Success("Risk tiers computed successfully!")>>

(***************************************************************************)
(* C24: a completed "generate all core artifacts" leaves the list of       *)
(* generated files equal to the four artifact paths under the current      *)
(* output directory, in the order csv, tiers, risks, summary, whatever     *)
(* the list held before.                                                   *)
(***************************************************************************)
C24_GenerationResetsTheList ==
    [][GenerateArtifacts =>
          generated_files' = << PathJoin(output_dir', "model_inventory.csv"),
                                PathJoin(output_dir', "risk_tiering.json"),
                                PathJoin(output_dir', "lifecycle_risk_map.json"),
                                PathJoin(output_dir', "case1_executive_summary.md") >>]_vars

\* The artifacts were generated again after a manifest had been listed.
C24_Witness ==
    /\ evidence_manifest # None
    /\ Len(generated_files) = 4
    /\ ManifestPath(output_dir) \notin Range(generated_files)
    /\ Len(msgs) = 4
    /\ msgs[1] = Success("Generated: model_inventory.csv")

(***************************************************************************)
(* C25: when the manifest handler completes, the manifest has one entry    *)
(* per path of the list of generated files, in list order, each with the   *)
(* path's base name, the path and the hash computed for that file; the     *)
(* manifest has as many artifacts as the list has paths.                   *)
(***************************************************************************)
C25_ManifestMirrorsTheList ==
    [][(GenerateManifest /\ msgs' = <<Success("Generated: evidence_manifest.json")>>) =>
          /\ Len(evidence_manifest'.artifacts) = Len(generated_files')
          /\ \A i \in DOMAIN generated_files' :
                evidence_manifest'.artifacts[i] =
                    EvidenceArtifact(BaseName(generated_files'[i]), generated_files'[i],
                                     calculate_sha256(fs.files, generated_files'[i]))]_vars

(***************************************************************************)
(* C26: in the narrative report a justification of more than 49 characters *)
(* is shown as its first 46 characters and three dots, a shorter one as    *)
(* it is, and none with more than 49 characters; a risk statement of more  *)
(* than 67 characters is shown as its first 64 characters and three dots,  *)
(* a shorter one as it is, and none with more than 67 characters.          *)
(***************************************************************************)
C26_ReportCellsAreShortened ==
    [][GenerateArtifacts =>
          LET report == executive_summary_content'
              top    == HeadRows(df_lifecycle_risk, 3)
          IN /\ df_risk_tier # <<>> =>
                   \A i \in DOMAIN df_risk_tier :
                       LET justification == df_risk_tier[i].justification
                           short_just    == report.tiers[i][4]
                       IN /\ RenderedLen(short_just) <= 49
                          /\ IF TextLen(justification) > 49
                             THEN short_just = <<"prefix", 46, justification, "...">>
                             ELSE short_just = justification
             /\ df_lifecycle_risk # <<>> =>
                   \A i \in DOMAIN top :
                       LET r_stmt     == <<top[i].risk_statement>>
                           short_stmt == report.top_risks[i][2]
                       IN /\ RenderedLen(short_stmt) <= 67
                          /\ IF TextLen(r_stmt) > 67
                             THEN short_stmt = <<"prefix", 64, r_stmt, "...">>
                             ELSE short_stmt = r_stmt]_vars

\* A report with a justification of exactly 49 characters shown whole, a longer
\* one cut to 49, a statement of exactly 67 characters shown whole and a longer
\* one cut to 67.
C26_Witness ==
    /\ executive_summary_content # EmptyText
    /\ \E row \in Range(executive_summary_content.tiers) :
          Len(row) = 4 /\ row[4] = <<"Signed off by the risk committee after the review">>
    /\ \E row \in Range(executive_summary_content.tiers) :
          Len(row) = 4 /\ Len(row[4]) = 4 /\ row[4][1] = "prefix" /\ RenderedLen(row[4]) = 49
    /\ \E row \in Range(executive_summary_content.top_risks) :
          Len(row) = 4 /\ row[2] = <<"Scores shift when the upstream feed changes its schema unannounced.">>
    /\ \E row \in Range(executive_summary_content.top_risks) :
          Len(row) = 4 /\ Len(row[2]) = 4 /\ row[2][1] = "prefix" /\ RenderedLen(row[2]) = 67

(***************************************************************************)
(* C27: no two systems of the inventory have names that are equal when     *)
(* case is ignored, whatever was added, edited or deleted since the seeded  *)
(* inventory; an add, or an edit of another system, under a name the       *)
(* inventory already holds is rejected and leaves the collections and      *)
(* their views as they were.                                               *)
(***************************************************************************)
NameHeldBy(name, others) ==
    \E x \in Range(system_records) :
        /\ Lower(x.name) = Lower(Strip(name))
        /\ UuidStr(x.system_id) \notin others

C27_NamesStayUnique ==
    /\ [](\A i \in DOMAIN system_records, j \in DOMAIN system_records :
             Lower(system_records[i].name) = Lower(system_records[j].name) => i = j)
    /\ [][/\ \A form \in SystemForms :
               (AddSystem(form) /\ NameHeldBy(form.name, {})) =>
                   (UNCHANGED <<dataVars, viewVars>> /\ OnlyErrorsShown)
          /\ \A id \in SystemOptions, form \in SystemForms :
               (EditSystem(id, form) /\ NameHeldBy(form.name, {id})) =>
                   (UNCHANGED <<dataVars, viewVars>> /\ OnlyErrorsShown)]_vars

\* A system was added as "Fraud Bot" and a second submission under a name
\* that differs from it in case only was rejected.
C27_Witness ==
    /\ \E x \in Range(system_records) : x.name = "Fraud Bot"
    /\ Len(system_records) = Len(ai_systems_data) + 1
    /\ msgs = Errors(<<"An AI system with this name already exists">>)

(***************************************************************************)
(* C28: every lifecycle risk of the session has impact and likelihood in   *)
(* 1..5, after creation and after any edit; an add whose impact or         *)
(* likelihood is outside 1..5 fails at construction and adds nothing.      *)
(***************************************************************************)
C28_ImpactAndLikelihoodStayInRange ==
    /\ [](\A lr \in Range(lifecycle_risks) :
             lr.impact \in 1..5 /\ lr.likelihood \in 1..5)
    /\ [][\A form \in RatedAddForms :
              (/\ AddLifecycleRisk(system_records[1].system_id, form)
               /\ (form.impact \notin 1..5 \/ form.likelihood \notin 1..5)) =>
                  (UNCHANGED <<dataVars, viewVars>> /\ OnlyErrorsShown)]_vars

\* A seeded risk was edited down to impact 1 and likelihood 1, and an add
\* with an impact of 6 was then refused.
C28_Witness ==
    /\ msgs = <<Error("Validation Error")>>
    /\ Len(lifecycle_risks) = Len(seed_lifecycle_risks)
    /\ \E lr \in Range(lifecycle_risks) :
          lr.risk_id \in 11..19 /\ lr.impact = 1 /\ lr.likelihood = 1

(***************************************************************************)
(* C29: the id-to-name map has exactly the identifiers of the inventory's  *)
(* systems, each with the system's current name; the inventory table has   *)
(* one row per system, the tier table one row per tier result and the      *)
(* lifecycle table one row per lifecycle risk, each row carrying the       *)
(* current name of its record's system, or 'Unknown' when no system of the *)
(* inventory has the record's system identifier.                           *)
(***************************************************************************)
NameOfSystem(sid) ==
    IF \E x \in Range(system_records) : x.system_id = sid
    THEN (CHOOSE x \in Range(system_records) : x.system_id = sid).name
    ELSE "Unknown"

C29_ViewsFollowCollections ==
    /\ DOMAIN system_id_map = {UuidStr(x.system_id) : x \in Range(system_records)}
    /\ \A x \in Range(system_records) : system_id_map[UuidStr(x.system_id)] = x.name
    /\ Len(df_inventory) = Len(system_records)
    /\ \A i \in DOMAIN system_records :
           /\ df_inventory[i].system_id = UuidStr(system_records[i].system_id)
           /\ df_inventory[i].name = system_records[i].name
    /\ Len(df_risk_tier) = Len(risk_tier_results)
    /\ \A i \in DOMAIN risk_tier_results :
           /\ df_risk_tier[i].system_id = UuidStr(risk_tier_results[i].system_id)
           /\ df_risk_tier[i].justification = risk_tier_results[i].justification
           /\ df_risk_tier[i].system_name = NameOfSystem(risk_tier_results[i].system_id)
    /\ Len(df_lifecycle_risk) = Len(lifecycle_risks)
    /\ \A lr \in Range(lifecycle_risks) :
           \E k \in DOMAIN df_lifecycle_risk :
               /\ df_lifecycle_risk[k].risk_id = UuidStr(lr.risk_id)
               /\ df_lifecycle_risk[k].risk_statement = lr.risk_statement
               /\ df_lifecycle_risk[k].impact = lr.impact
               /\ df_lifecycle_risk[k].system_name = NameOfSystem(lr.system_id)
               /\ \A j \in DOMAIN df_lifecycle_risk :
                      df_lifecycle_risk[j].risk_id = UuidStr(lr.risk_id) => j = k

\* The first seeded system, with tier results and lifecycle risks, was renamed.
C29_Witness ==
    /\ msgs = <<Success("AI System 'Fraud Bot' updated successfully!")>>
    /\ system_records[1].name = "Fraud Bot"
    /\ risk_tier_results # <<>>
    /\ df_risk_tier[1].system_name = "Fraud Bot"
    /\ \E k \in DOMAIN df_lifecycle_risk : df_lifecycle_risk[k].system_name = "Fraud Bot"

(***************************************************************************)
(* C30: every tier result of the session has the score breakdown, total    *)
(* score and tier that calculate_risk_tier gives the system it references  *)
(* as that system is now, also after the system's scoring attributes or     *)
(* dependencies were edited.                                               *)
(***************************************************************************)
C30_ResultsAgreeWithInventory ==
    \A r \in Range(risk_tier_results) :
        \A x \in Range(system_records) :
            x.system_id = r.system_id =>
                LET fresh == calculate_risk_tier(x, r.computed_at)
                IN /\ r.score_breakdown = fresh.score_breakdown
                   /\ r.risk_tier = fresh.risk_tier

====
